---- MODULE Spec2Model ----
(***************************************************************************)
(* A model of DSPgate's device-facing core: the SSH transport              *)
(* (src/transports/SSH.py) and the Tesira device object                    *)
(* (src/dsp/Tesira.py).                                                    *)
(*                                                                         *)
(* Processes: the transport supervisor thread (SSH.__loop), the thread     *)
(* that constructs the device (Tesira.__init__), the reader thread         *)
(* (Tesira.__readLoop), callers of the control API, a caller of close(),   *)
(* and the remote device (session drops, banner, responses, pushes).       *)
(***************************************************************************)
EXTENDS Integers, Sequences, FiniteSets, TLC

VARIABLES
    connected,   \* SSH.__connected
    session,     \* SSH.__session: "none" | "new" | "open" | "closed"
    chan,        \* SSH.__connection (the shell channel): "none" | "open" | "closed"
    banner,      \* the welcome text was read on the session now held
    supPc,       \* position of SSH.__loop: "loop" | "connect" | "handshake" | "done"
    hsClock,     \* seconds elapsed in the banner wait of __connect (0 outside it)
    exitT,       \* SSH.__exit
    ready,       \* Tesira.__ready
    initPc,      \* position of Tesira.__init__
    reqIdx,      \* index of the discovery request in flight (0 outside discovery)
    swClock,     \* seconds elapsed in send_wait's poll loop (0 outside it)
    sw,          \* the last send_wait call: what it did and how it ended
    cacheFile,   \* the dspAttributesFile given: "none" or one of CacheFiles
    info,        \* Tesira.__hostname, __version and the length of __dspAliases
    disc,        \* discovery so far: a probe was written, the cache files saved
    blocks,      \* Tesira.__dspBlocks
    subs,        \* subscribe commands written by __setupSubscriptions
    exitD,       \* Tesira.__exit
    readerPc,    \* position of Tesira.__readLoop: "none" | "run" | "more" | "recv" | "dead" | "done"
    rxBuf,       \* Tesira.__rxLoopBuffer: the lines of its unterminated tail
    rd,          \* the reader's last SSH.recv call: how it ended, the lines it got and completed
    call,        \* the last control API call: arguments, outcome, commands written
    closePc,     \* position of a close() call: "idle" | "dJoin" | "tJoin" | "dtJoin"
    nClose,      \* SSH.close() calls that have returned
    dClosed,     \* a Tesira.close() call has returned
    closeErr,    \* a close() call raised
    txt,         \* a text handed to the reader's line loop or to the parser
    res,         \* what the line loop or the parser made of txt
    wr,          \* the control API calls in progress, one per calling thread
    wire,        \* the command lines written to the channel, in the order written
    subSession,  \* the device holds subscriptions for the session now open
    inbox        \* the bytes of the device's answers that no recv has taken yet

tvars == <<connected, session, chan, banner, supPc, hsClock, exitT>>
dvars == <<ready, initPc, reqIdx, swClock, sw, cacheFile, info, disc, blocks, subs, exitD>>
rvars == <<readerPc, rxBuf, rd>>
cvars == <<closePc, nClose, dClosed, closeErr>>
pvars == <<txt, res>>
wvars == <<wr, wire>>
vars == <<connected, session, chan, banner, supPc, hsClock, exitT,
          ready, initPc, reqIdx, swClock, sw, cacheFile, info, disc, blocks, subs, exitD,
          readerPc, rxBuf, rd, call, closePc, nClose, dClosed, closeErr,
          txt, res, wr, wire, subSession, inbox>>

(***************************************************************************)
(* Program constants and the bounds of the model.                          *)
(***************************************************************************)
initialConnectionTimeout == 10
commandTimeout == 5

\* Seconds that pass between two modelled polls of a timed loop.
ClockStep == 5
\* close() calls made on one object.
MaxClose == 2
\* Lines the device puts into one read of the reader.
MaxChunk == 2
\* Lines the reader's unterminated tail may hold.
MaxTail == 1
\* Characters of a segment handed to the line loop.
MaxSeg == 4
\* Characters of a raw token handed to the value normaliser.
MaxTok == 4
\* Pieces of the publish token of a subscription line.
MaxToken == 6
\* Characters of a block ID.
MaxId == 3

(***************************************************************************)
(* The device the model talks to: its aliases, and what it answers to the  *)
(* probes. "D" is the device handle, which is an alias but not a block.    *)
(***************************************************************************)
Aliases == <<"G", "M", "U", "S", "D">>

DeviceType ==
    [a \in {"G", "M", "U", "S", "D"} |->
        CASE a = "G" -> "LevelControl"
          [] a = "M" -> "MuteControl"
          [] a = "U" -> "UsbInput"
          [] a = "S" -> "SourceSelector"
          [] OTHER   -> "none"]

DeviceChannels == [a \in {"G", "M", "U"} |-> IF a = "G" THEN 2 ELSE 1]

DeviceGanged == [a \in {"G", "M"} |-> a = "M"]

DeviceMinLevel == [c \in {1, 2} |-> IF c = 1 THEN -1 ELSE 0]
DeviceMaxLevel == [c \in {1, 2} |-> IF c = 1 THEN 0 ELSE 1]

SeqToSet(s) == {s[i] : i \in 1..Len(s)}

(***************************************************************************)
(* Discovery: the requests of Tesira.__init__ and __discoverDSPBlocks, in  *)
(* the order the code sends them, and the block map they produce.          *)
(***************************************************************************)
HeaderRequests ==
    << <<"DEVICE", "get", "hostname", 0>>,
       <<"DEVICE", "get", "version", 0>>,
       <<"SESSION", "get", "aliases", 0>>,
       <<"SESSION", "set", "verbose", 0>>,
       <<"SESSION", "set", "detailedResponse", 0>> >>

SupportedTypes ==
    {"LevelControl", "MuteControl", "DanteInput", "DanteOutput",
     "UsbInput", "UsbOutput", "AudioOutput"}
GangedTypes == {"LevelControl", "MuteControl"}
UsbTypes == {"UsbInput", "UsbOutput"}
DanteTypes == {"DanteInput", "DanteOutput"}
NoLabelTypes == {"UsbInput", "UsbOutput", "AudioOutput"}
LevelTypes == {"LevelControl", "DanteInput", "DanteOutput", "AudioOutput"}

\* The aliases that answer the BLOCKTYPE probe with <Type>Interface::Attributes.
BlockIDs == SelectSeq(Aliases, LAMBDA a : DeviceType[a] # "none")

TypeRequests == [i \in 1..Len(Aliases) |-> <<Aliases[i], "get", "BLOCKTYPE", 0>>]

RECURSIVE ChannelRequests(_, _, _)
ChannelRequests(b, i, n) ==
    IF i > n THEN <<>>
    ELSE LET t == DeviceType[b]
             lbl == IF t \in DanteTypes THEN << <<b, "get", "channelName", i>> >>
                    ELSE IF t \in NoLabelTypes THEN <<>>
                    ELSE << <<b, "get", "label", i>> >>
             lvl == IF t \in LevelTypes
                    THEN << <<b, "get", "minLevel", i>>, <<b, "get", "maxLevel", i>> >>
                    ELSE <<>>
         IN lbl \o lvl \o ChannelRequests(b, i + 1, n)

AttrRequestsOf(b) ==
    IF DeviceType[b] \notin SupportedTypes THEN <<>>
    ELSE (IF DeviceType[b] \in GangedTypes THEN << <<b, "get", "ganged", 0>> >> ELSE <<>>)
         \o << <<b, "get", "numChannels", 0>> >>
         \o ChannelRequests(b, 1, DeviceChannels[b])

RECURSIVE AttrRequests(_)
AttrRequests(bs) ==
    IF bs = <<>> THEN <<>> ELSE AttrRequestsOf(Head(bs)) \o AttrRequests(Tail(bs))

ProbeRequests == TypeRequests \o AttrRequests(BlockIDs)

Requests == HeaderRequests \o ProbeRequests

\* A channel as __discoverDSPBlocks builds it (lines 186-204).
ChannelOfType(t, i) ==
    LET lbl == IF t \in NoLabelTypes THEN "Channel" ELSE "label"
    IN IF t \in LevelTypes
       THEN [idx |-> i, label |-> lbl, muted |-> FALSE,
             level |-> [current |-> -100, minimum |-> DeviceMinLevel[i],
                        maximum |-> DeviceMaxLevel[i]]]
       ELSE IF t \in UsbTypes
       THEN [idx |-> i, label |-> lbl]
       ELSE [idx |-> i, label |-> lbl, muted |-> FALSE]

DiscoveredChannel(b, i) == ChannelOfType(DeviceType[b], i)

\* The keys of a channel map are the integers 1..N as discovery builds it.
IntKey(i) == <<"int", i>>
StrKey(i) == <<"str", i>>

\* A block of type t with n channels as __discoverDSPBlocks builds it (lines
\* 133-206); g is the answer to the ganged probe of the types that have one.
BlockOfType(t, n, g) ==
    IF t \notin SupportedTypes THEN [supported |-> FALSE, type |-> t]
    ELSE LET chans == [k \in {IntKey(i) : i \in 1..n} |-> ChannelOfType(t, k[2])]
         IN IF t \in GangedTypes
            THEN [supported |-> TRUE, type |-> t, ganged |-> g,
                  channels |-> chans]
            ELSE IF t \in UsbTypes
            THEN [supported |-> TRUE, type |-> t,
                  usb |-> [streaming |-> FALSE, connected |-> FALSE],
                  channels |-> chans]
            ELSE [supported |-> TRUE, type |-> t, channels |-> chans]

DiscoveredBlock(b) ==
    LET t == DeviceType[b]
    IN BlockOfType(t, IF t \in SupportedTypes THEN DeviceChannels[b] ELSE 0,
                   IF t \in GangedTypes THEN DeviceGanged[b] ELSE FALSE)

DiscoveredBlocks == [b \in SeqToSet(BlockIDs) |-> DiscoveredBlock(b)]

\* json.dump followed by json.load: the keys of every object come back as strings.
JsonRoundTripBlock(blk) ==
    IF "channels" \notin DOMAIN blk THEN blk
    ELSE [f \in DOMAIN blk |->
            IF f = "channels"
            THEN [k \in {StrKey(j[2]) : j \in DOMAIN blk.channels} |->
                     blk.channels[IntKey(k[2])]]
            ELSE blk[f]]

\* The blocks of a cache file that an earlier discovery of this device wrote.
CachedBlocks == [b \in DOMAIN DiscoveredBlocks |-> JsonRoundTripBlock(DiscoveredBlocks[b])]

\* The keys of a channel map in insertion order (dict.keys()).
ChannelKeys(blk) ==
    LET n == Cardinality(DOMAIN blk.channels)
    IN [i \in 1..n |-> CHOOSE k \in DOMAIN blk.channels : k[2] = i]


(***************************************************************************)
(* The transport: SSH.__loop and SSH.__connect.                            *)
(***************************************************************************)
\* SSH.active
Active == connected

\* A send and a recv that look at the channel alone, not at the connected flag.
SessionUsableUnchecked == chan = "open"

\* The condition of SSH.recv_ready, SSH.recv and SSH.send.
SessionUsable == connected /\ chan = "open"

\* A supervisor that reconnects on its own flag alone and does not look at the
\* channel.
SupCheckFlagOnly ==
    /\ supPc = "loop"
    /\ IF exitT
       THEN /\ supPc' = "done"
            /\ UNCHANGED <<connected, session, chan, banner>>
       ELSE IF ~connected
       THEN /\ connected' = FALSE
            /\ session' = "new"
            /\ chan' = IF chan = "open" THEN "closed" ELSE chan
            /\ banner' = FALSE
            /\ supPc' = "connect"
       ELSE UNCHANGED <<connected, session, chan, banner, supPc>>
    /\ UNCHANGED <<hsClock, exitT>>

\* A __connect that leaves the connected flag as it finds it.
SupCheckKeepsFlag ==
    /\ supPc = "loop"
    /\ IF exitT
       THEN /\ supPc' = "done"
            /\ UNCHANGED <<connected, session, chan, banner>>
       ELSE IF ~connected \/ chan = "none" \/ chan = "closed"
       THEN /\ session' = "new"
            /\ chan' = IF chan = "open" THEN "closed" ELSE chan
            /\ banner' = FALSE
            /\ supPc' = "connect"
            /\ UNCHANGED connected
       ELSE UNCHANGED <<connected, session, chan, banner, supPc>>
    /\ UNCHANGED <<hsClock, exitT>>

\* The top of __loop: the exit test, then either the start of __connect (close a
\* lingering session, clear the flag, make a new client) or the 0.2 s sleep.
SupCheck ==
    /\ supPc = "loop"
    /\ IF exitT
       THEN /\ supPc' = "done"
            /\ UNCHANGED <<connected, session, chan, banner>>
       ELSE IF ~connected \/ chan = "none" \/ chan = "closed"
       THEN /\ connected' = FALSE
            /\ session' = "new"
            /\ chan' = IF chan = "open" THEN "closed" ELSE chan
            /\ banner' = FALSE
            /\ supPc' = "connect"
       ELSE UNCHANGED <<connected, session, chan, banner, supPc>>
    /\ UNCHANGED <<hsClock, exitT>>

\* session.connect and invoke_shell: the device accepts, or the call raises and
\* __loop's handler clears the flag and sleeps 1 s.
SupConnect ==
    /\ supPc = "connect"
    /\ \E accepted \in BOOLEAN :
          IF accepted
          THEN /\ session' = "open"
               /\ chan' = "open"
               /\ hsClock' = 0
               /\ supPc' = "handshake"
               /\ UNCHANGED connected
          ELSE /\ connected' = FALSE
               /\ supPc' = "loop"
               /\ UNCHANGED <<session, chan, hsClock>>
    /\ UNCHANGED <<banner, exitT>>

\* One poll of the banner wait: the welcome text is read, or time passes; at the
\* timeout __connect raises and __loop's handler clears the flag.
SupHandshake ==
    /\ supPc = "handshake"
    /\ IF hsClock < initialConnectionTimeout
       THEN \E welcome \in BOOLEAN :
               IF chan = "open" /\ welcome
               THEN /\ connected' = TRUE
                    /\ banner' = TRUE
                    /\ supPc' = "loop"
                    /\ hsClock' = 0
               ELSE /\ hsClock' = hsClock + ClockStep
                    /\ UNCHANGED <<connected, banner, supPc>>
       ELSE /\ connected' = FALSE
            /\ supPc' = "loop"
            /\ hsClock' = 0
            /\ UNCHANGED banner
    /\ UNCHANGED <<session, chan, exitT>>

\* The remote end closes the channel, or the connection breaks.
SessionDrop ==
    /\ chan = "open"
    /\ chan' = "closed"
    /\ UNCHANGED <<connected, session, banner, supPc, hsClock, exitT>>


(***************************************************************************)
(* Construction of the device: Tesira.__init__, with SSH.send_wait.        *)
(***************************************************************************)
SwIdle == [st |-> "idle", wasActive |-> FALSE, wrote |-> FALSE, got |-> FALSE, err |-> "none"]

\* What send_wait raises when its poll loop runs out: line 173 formats a name,
\* cmd, that the function does not define.
SendWaitExpiry == "NameError"

\* A setup that subscribes to levels and mutes on every supported block.
SubscribeKindsLevelsForAll(t) ==
    IF t \in SupportedTypes THEN <<"levels", "mutes">> ELSE <<>>

\* The subscriptions of one block type (lines 233-250).
SubscribeKinds(t) ==
    IF t \in LevelTypes THEN <<"levels", "mutes">>
    ELSE IF t = "MuteControl" THEN <<"mutes">>
    ELSE IF t \in UsbTypes THEN <<"streaming", "connected">>
    ELSE <<>>

RECURSIVE SubscribeCommandsOf(_, _)
SubscribeCommandsOf(blks, ids) ==
    IF ids = <<>> THEN <<>>
    ELSE LET b == Head(ids)
             ks == IF b \in DOMAIN blks THEN SubscribeKinds(blks[b].type) ELSE <<>>
         IN [i \in 1..Len(ks) |-> <<b, "subscribe", ks[i]>>]
            \o SubscribeCommandsOf(blks, Tail(ids))

SubscribeCommands(blks) == SubscribeCommandsOf(blks, BlockIDs)

\* __init__ waits for the transport to become active (lines 40-41).
InitWaitActive ==
    /\ initPc = "waitActive"
    /\ Active
    /\ initPc' = "req"
    /\ reqIdx' = 1
    /\ UNCHANGED <<ready, swClock, sw, cacheFile, info, disc, blocks, subs, exitD>>

\* send_wait, first half: SSH.send writes the request or raises.
InitSend ==
    /\ initPc = "req"
    /\ IF SessionUsable
       THEN /\ sw' = [st |-> "waiting", wasActive |-> Active, wrote |-> TRUE, got |-> FALSE,
                      err |-> "none"]
            /\ swClock' = 0
            /\ initPc' = "wait"
            /\ disc' = [disc EXCEPT !.probes = @ \/ reqIdx > Len(HeaderRequests)]
            /\ UNCHANGED reqIdx
       ELSE /\ sw' = [st |-> "raised", wasActive |-> Active, wrote |-> FALSE, got |-> FALSE,
                      err |-> "NotReady"]
            /\ initPc' = "failed"
            /\ reqIdx' = 0
            /\ UNCHANGED <<swClock, disc>>
    /\ UNCHANGED <<ready, cacheFile, info, blocks, subs, exitD>>

\* The cache file (lines 62-83). The device's own hostname, firmware and number
\* of aliases; the files a caller may give: none, one that does not load, one
\* that an earlier discovery of this device wrote, and three that differ from
\* the device in one field of the header each. The constructor compares the
\* file with what it parsed from the answers to its first three requests.
NoInfo == [hostname |-> "unset", firmware |-> "unset", nAliases |-> 0]

LiveHeader == [hostname |-> "dsp", firmware |-> "1.0", nAliases |-> Len(Aliases)]
CacheFiles == {"unreadable", "match", "otherHost", "otherFirmware", "otherAliases"}
CacheLoads(file) == file \notin {"none", "unreadable"}
CacheHeader(file) ==
    [hostname |-> IF file = "otherHost" THEN "other" ELSE LiveHeader.hostname,
     firmware |-> IF file = "otherFirmware" THEN "0.9" ELSE LiveHeader.firmware,
     nAliases |-> IF file = "otherAliases" THEN LiveHeader.nAliases + 1
                  ELSE LiveHeader.nAliases]

\* A cache that passes the hostname and the firmware test and is not asked for
\* its number of aliases.
CacheAdoptedNoAliasTest(file) ==
    /\ CacheLoads(file)
    /\ CacheHeader(file).hostname = info.hostname
    /\ CacheHeader(file).firmware = info.firmware

\* The file is there, loads, and passes the three assertions of lines 74-76.
CacheAdopted(file) ==
    /\ CacheLoads(file)
    /\ CacheHeader(file).hostname = info.hostname
    /\ CacheHeader(file).firmware = info.firmware
    /\ CacheHeader(file).nAliases = info.nAliases

\* What __discoverDSPBlocks writes to .cache/<hostname>.cdspblk (lines 209-218).
SavedCache == [header |-> info, blocks |-> CachedBlocks]

\* A constructor that goes from the aliases straight to the cache file and the
\* probes, without the two session settings.
InitAdvanceSkipsSettings ==
    IF reqIdx = 3
    THEN /\ reqIdx' = Len(HeaderRequests) + 1
         /\ initPc' = "req"
         /\ UNCHANGED <<blocks, disc>>
    ELSE IF reqIdx < Len(Requests)
    THEN /\ reqIdx' = reqIdx + 1
         /\ initPc' = "req"
         /\ UNCHANGED <<blocks, disc>>
    ELSE /\ blocks' = DiscoveredBlocks
         /\ disc' = [disc EXCEPT !.saved = Append(@, SavedCache)]
         /\ initPc' = "startReader"
         /\ reqIdx' = 0

\* What __init__ does with the response to request reqIdx: the next request, the
\* cache file after the last header request, the block map after the last probe.
InitAdvance ==
    IF reqIdx = Len(HeaderRequests) /\ CacheAdopted(cacheFile)
    THEN /\ blocks' = CachedBlocks
         /\ initPc' = "startReader"
         /\ reqIdx' = 0
         /\ UNCHANGED disc
    ELSE IF reqIdx < Len(Requests)
    THEN /\ reqIdx' = reqIdx + 1
         /\ initPc' = "req"
         /\ UNCHANGED <<blocks, disc>>
    ELSE /\ blocks' = DiscoveredBlocks
         /\ disc' = [disc EXCEPT !.saved = Append(@, SavedCache)]
         /\ initPc' = "startReader"
         /\ reqIdx' = 0

\* What __parseResponse makes of the buffer a send_wait returned: the value of
\* a response it parsed, or None of a buffer without a line that has a response
\* prefix (lines 565-566 and 586-588).
Parsed(q, v) == IF q = "parsed" THEN v ELSE "None"

\* Lines 45-54: the hostname, the version and the aliases are stored as parsed.
\* Line 54 takes the length of the aliases, which raises on None.
InfoAfter(q) ==
    IF reqIdx = 1 THEN [info EXCEPT !.hostname = Parsed(q, LiveHeader.hostname)]
    ELSE IF reqIdx = 2 THEN [info EXCEPT !.firmware = Parsed(q, LiveHeader.firmware)]
    ELSE IF reqIdx = 3 THEN [info EXCEPT !.nAliases = IF q = "parsed" THEN LiveHeader.nAliases ELSE -1]
    ELSE info

\* send_wait, second half: one poll of the channel. A buffer is there and is
\* returned, or time passes; at commandTimeout the function raises. The buffer
\* returned for one of the first three requests is one of the kinds qs.
InitPollWith(qs) ==
    /\ initPc = "wait"
    /\ IF swClock < commandTimeout
       THEN \E answered \in BOOLEAN :
               IF chan = "open" /\ answered
               THEN \E q \in (IF reqIdx <= 3 THEN qs ELSE {"parsed"}) :
                       /\ sw' = [sw EXCEPT !.st = "returned", !.got = TRUE]
                       /\ info' = InfoAfter(q)
                       /\ swClock' = 0
                       /\ IF reqIdx = 3 /\ q # "parsed"
                          THEN /\ initPc' = "failed"
                               /\ reqIdx' = 0
                               /\ UNCHANGED <<blocks, disc>>
                          ELSE InitAdvance
               ELSE /\ swClock' = swClock + ClockStep
                    /\ UNCHANGED <<sw, initPc, reqIdx, blocks, disc, info>>
       ELSE /\ sw' = [sw EXCEPT !.st = "raised", !.err = SendWaitExpiry]
            /\ initPc' = "failed"
            /\ swClock' = 0
            /\ reqIdx' = 0
            /\ UNCHANGED <<blocks, disc, info>>
    /\ UNCHANGED <<ready, cacheFile, subs, exitD>>

\* The device answers every request with a response the parser takes.
InitPoll == InitPollWith({"parsed"})

\* A constructor that declares the device ready as it starts the reader, before
\* the subscriptions are sent.
InitStartReaderSetsReady ==
    /\ initPc = "startReader"
    /\ initPc' = "subscribe"
    /\ readerPc' = "run"
    /\ rxBuf' = <<>>
    /\ ready' = TRUE
    /\ UNCHANGED <<reqIdx, swClock, sw, cacheFile, info, disc, blocks, subs, exitD, rd>>

\* The reader thread is started (lines 94-96).
InitStartReader ==
    /\ initPc = "startReader"
    /\ initPc' = "subscribe"
    /\ readerPc' = "run"
    /\ rxBuf' = <<>>
    /\ UNCHANGED <<ready, reqIdx, swClock, sw, cacheFile, info, disc, blocks, subs, exitD, rd>>

\* Subscriptions sent with send_wait, which reads the answer itself while the
\* reader is running.
InitSubscribeSendWait ==
    /\ initPc = "subscribe"
    /\ SessionUsable
    /\ sw' = [st |-> "waiting", wasActive |-> Active, wrote |-> TRUE, got |-> FALSE,
              err |-> "none"]
    /\ subs' = SubscribeCommands(blocks)
    /\ ready' = TRUE
    /\ initPc' = "done"
    /\ UNCHANGED <<reqIdx, swClock, cacheFile, info, disc, blocks, exitD, chan>>

\* A core that writes the subscribe commands again on a session it finds
\* without them.
InitSubscribeAgain ==
    /\ initPc \in {"subscribe", "done"}
    /\ SessionUsable
    /\ initPc = "done" => ~subSession
    /\ subs' = SubscribeCommands(blocks)
    /\ ready' = TRUE
    /\ initPc' = "done"
    /\ UNCHANGED <<reqIdx, swClock, sw, cacheFile, info, disc, blocks, exitD, chan>>

\* __setupSubscriptions and the end of __init__: every subscribe command is
\* written and ready is set, or a send raises (the session is down, or goes down
\* after k commands) and the constructor fails.
InitSubscribe ==
    /\ initPc = "subscribe"
    /\ LET cmds == SubscribeCommands(blocks) IN
       IF SessionUsable
       THEN \E k \in (1..Len(cmds)) \cup {Len(cmds)} :
               /\ subs' = SubSeq(cmds, 1, k)
               /\ IF k = Len(cmds)
                  THEN /\ ready' = TRUE
                       /\ initPc' = "done"
                       /\ UNCHANGED chan
                  ELSE /\ chan' = "closed"
                       /\ initPc' = "failed"
                       /\ UNCHANGED ready
       ELSE /\ initPc' = "failed"
            /\ UNCHANGED <<ready, subs, chan>>
    /\ UNCHANGED <<reqIdx, swClock, sw, cacheFile, info, disc, blocks, exitD>>


(***************************************************************************)
(* The subscription router: Tesira.__processReceivedData on one parsed     *)
(* subscription line. A value is what __valFormat returns: a float, a bool *)
(* or a string.                                                            *)
(***************************************************************************)
Num(n) == <<"num", n>>
Bool(b) == <<"bool", b>>
Str(t) == <<"str", t>>

\* bool(v)
PyBool(v) ==
    IF v[1] = "num" THEN v[2] # 0
    ELSE IF v[1] = "bool" THEN v[2]
    ELSE v[2] # ""

\* float(v) raises ValueError on a string that __valFormat left a string.
PyFloatOK(v) == v[1] # "str"
PyFloat(v) == IF v[1] = "num" THEN v[2] ELSE IF v[2] = TRUE THEN 1 ELSE 0

\* A subscription frame: the kind and block of its publish token and its value,
\* a list (list = TRUE) or one scalar (vals has one element).
Frame(k, b, isList, vs) == [kind |-> k, block |-> b, list |-> isList, vals |-> vs]

\* A router that stores the mute states under a field of its own making.
SetMutesOtherField(blks, b, vs, i) ==
    LET chans == blks[b].channels
    IN [blks EXCEPT ![b].channels =
           [k \in DOMAIN chans |->
               [f \in DOMAIN chans[k] \cup {"mute"} |->
                   IF f = "mute" THEN PyBool(vs[1]) ELSE chans[k][f]]]]

\* A router that stores the first mute state of a list only.
SetMutesFirstOnly(blks, b, vs, i) ==
    LET key == ChannelKeys(blks[b])[1]
    IN [blks EXCEPT ![b].channels[key] =
           [f \in DOMAIN @ \cup {"muted"} |-> IF f = "muted" THEN PyBool(vs[1]) ELSE @[f]]]

RECURSIVE SetMutes(_, _, _, _)
SetMutes(blks, b, vs, i) ==
    IF i > Len(vs) THEN blks
    ELSE LET key == ChannelKeys(blks[b])[i]
         IN SetMutes([blks EXCEPT ![b].channels[key] =
                         [f \in DOMAIN @ \cup {"muted"} |->
                             IF f = "muted" THEN PyBool(vs[i]) ELSE @[f]]],
                     b, vs, i + 1)

\* The loop of lines 514-516 stops at the first element it cannot store: a
\* channel without a level (KeyError) or a value float() rejects (ValueError).
RECURSIVE SetLevels(_, _, _, _)
SetLevels(blks, b, vs, i) ==
    IF i > Len(vs) THEN blks
    ELSE LET key == ChannelKeys(blks[b])[i]
         IN IF "level" \notin DOMAIN blks[b].channels[key] \/ ~PyFloatOK(vs[i])
            THEN blks
            ELSE SetLevels([blks EXCEPT ![b].channels[key].level.current = PyFloat(vs[i])],
                           b, vs, i + 1)

\* The kinds of a subscription line; a line of any other kind (an answer, an
\* error, noise) is parsed and left alone (lines 473-482).
SubscriptionKinds == {"levels", "mutes", "streaming", "connected"}

\* A router that makes an entry for a name it does not know.
ApplyFrameAddsBlock(blks, f) ==
    IF f.kind \in SubscriptionKinds /\ f.block \notin DOMAIN blks
    THEN [b \in DOMAIN blks \cup {f.block} |->
             IF b \in DOMAIN blks THEN blks[b] ELSE [supported |-> FALSE, type |-> "none"]]
    ELSE blks

\* A router that stores as many mute states of a list as the block has channels
\* and does not compare the two numbers.
ApplyFrameAnyLength(blks, f) ==
    IF /\ f.list /\ f.kind = "mutes" /\ f.block \in DOMAIN blks
       /\ blks[f.block].type \in SupportedTypes \ UsbTypes
    THEN LET n == Cardinality(DOMAIN blks[f.block].channels)
         IN SetMutes(blks, f.block,
                     SubSeq(f.vals, 1, IF Len(f.vals) < n THEN Len(f.vals) ELSE n), 1)
    ELSE blks

\* A router that stores the connected flag of a USB block as its streaming flag.
ApplyFrameUsbSwapped(blks, f) ==
    IF /\ ~f.list /\ f.kind = "connected" /\ f.block \in DOMAIN blks
       /\ blks[f.block].type \in UsbTypes
    THEN [blks EXCEPT ![f.block].usb.streaming = PyBool(f.vals[1])]
    ELSE blks

ApplyFrame(blks, f) ==
    IF f.kind \notin SubscriptionKinds THEN blks
    ELSE IF f.block \notin DOMAIN blks THEN blks
    ELSE LET blk == blks[f.block] IN
         IF blk.type \notin SupportedTypes THEN blks
         ELSE IF f.list
         THEN IF Len(f.vals) # Cardinality(DOMAIN blk.channels) THEN blks
              ELSE IF f.kind = "mutes"
              THEN IF blk.type \in UsbTypes THEN blks
                   ELSE SetMutes(blks, f.block, f.vals, 1)
              ELSE IF blk.type = "MuteControl" THEN blks
              ELSE SetLevels(blks, f.block, f.vals, 1)
         ELSE IF f.vals[1][1] \in {"str", "bool"} /\ blk.type \in UsbTypes
         THEN IF f.kind = "streaming"
              THEN [blks EXCEPT ![f.block].usb.streaming = PyBool(f.vals[1])]
              ELSE IF f.kind = "connected"
              THEN [blks EXCEPT ![f.block].usb.connected = PyBool(f.vals[1])]
              ELSE blks
         ELSE blks

RECURSIVE ApplyFrames(_, _)
ApplyFrames(blks, fs) ==
    IF fs = <<>> THEN blks ELSE ApplyFrames(ApplyFrame(blks, Head(fs)), Tail(fs))

(***************************************************************************)
(* The reader thread: Tesira.__readLoop. SSH.recv strips every buffer it   *)
(* returns, so the last line of a read loses its newline and stays in      *)
(* __rxLoopBuffer, where the first line of the next read is appended to    *)
(* it. Of a line made of several subscription lines, __parseResponse keeps *)
(* for each key the last value, that is the last line's token and value.   *)
(***************************************************************************)
\* A reader that processes the line it held back after the first line of the
\* next read.
CompletedTailLast(tail, chunk) ==
    IF Len(chunk) = 1 THEN <<>>
    ELSE <<chunk[1]>> \o tail \o SubSeq(chunk, 2, Len(chunk) - 1)

\* A scalar value with the first characters of the next line glued to it: the
\* regular expression of line 623 takes both as one text, which __valFormat
\* leaves a string.
Glued(f) ==
    IF f.list \/ f.kind \notin SubscriptionKinds THEN f
    ELSE [f EXCEPT !.vals = <<Str("glued")>>]

\* The line that consecutive lines without a newline between them make. The
\* prefix of the first one decides its type (lines 571-583); of several
\* subscription lines the last one's token and value stay (lines 625-636).
Merged(ls) ==
    IF ls[1].kind \notin SubscriptionKinds THEN ls[1]
    ELSE LET j == CHOOSE i \in 1..Len(ls) :
                      /\ ls[i].kind \in SubscriptionKinds
                      /\ \A k \in (i + 1)..Len(ls) : ls[k].kind \notin SubscriptionKinds
         IN IF j = Len(ls) THEN ls[j] ELSE Glued(ls[j])

\* The lines that one read completes, and the tail it leaves.
Completed(tail, chunk) ==
    IF Len(chunk) = 1 THEN <<>>
    ELSE <<Merged(tail \o <<chunk[1]>>)>> \o SubSeq(chunk, 2, Len(chunk) - 1)

TailAfter(tail, chunk) ==
    IF Len(chunk) = 1 THEN tail \o chunk ELSE <<chunk[Len(chunk)]>>

Chunks(frames) == UNION {[1..n -> frames] : n \in 1..MaxChunk}

\* The answer of the device to a command.
Answer == Frame("ok", "", FALSE, <<Str("cmd_response_ok")>>)

\* What the device sends on a session: subscription lines only on one on which
\* the subscribe commands of __setupSubscriptions were written.
DeviceLines(frames) == IF subSession THEN frames ELSE {Answer}

\* The device's subscriptions end with the channel they were made on.
SubscriptionsKept == subSession' = (subSession /\ chan' = chan)

\* The subscribe commands were written, all of them, to a session that took them.
SubscriptionsMade == subSession' = (SessionUsable /\ chan' = chan /\ subs' # <<>>)

RdNone == [st |-> "none", wasActive |-> FALSE, read |-> FALSE, got |-> <<>>, lines |-> <<>>]

\* Lines 438-441: the exit flag is not set and the transport is active; the
\* reader goes to the inner loop that empties the transport's buffer.
ReaderPoll ==
    /\ readerPc = "run"
    /\ ~exitD
    /\ Active
    /\ readerPc' = "more"
    /\ UNCHANGED <<rxBuf, rd, blocks>>

\* Line 447, the test of the inner loop: recv_ready says a buffer is there, which
\* takes a usable session and is the device's doing, or the loop ends and the
\* reader is back at the test of the exit flag. The flag is not looked at here.
ReaderMore ==
    /\ readerPc = "more"
    /\ \E ready_ \in BOOLEAN :
          IF SessionUsable /\ ready_
          THEN readerPc' = "recv"
          ELSE readerPc' = "run"
    /\ UNCHANGED <<rxBuf, rd, blocks>>

\* Line 449, then lines 454-462: SSH.recv returns a buffer, which is appended and
\* whose complete lines are processed; or it raises, which ends the thread, as
\* __readLoop catches nothing.
ReaderRecv(frames) ==
    /\ readerPc = "recv"
    /\ IF SessionUsable
       THEN \E chunk \in Chunks(DeviceLines(frames)) :
               /\ Len(TailAfter(rxBuf, chunk)) <= MaxTail
               /\ rxBuf' = TailAfter(rxBuf, chunk)
               /\ blocks' = ApplyFrames(blocks, Completed(rxBuf, chunk))
               /\ rd' = [st |-> "returned", wasActive |-> Active, read |-> TRUE,
                         got |-> chunk, lines |-> Completed(rxBuf, chunk)]
               /\ readerPc' = "more"
       ELSE /\ rd' = [st |-> "raised", wasActive |-> Active, read |-> FALSE,
                       got |-> <<>>, lines |-> <<>>]
            /\ readerPc' = "dead"
            /\ UNCHANGED <<rxBuf, blocks>>

\* The loop test of line 438 sees the exit flag.
ReaderExit ==
    /\ readerPc = "run"
    /\ exitD
    /\ readerPc' = "done"
    /\ UNCHANGED <<rxBuf, rd, blocks>>

(***************************************************************************)
(* The control API: the accessors blocks, supportedBlocks and block, and   *)
(* setMute and setLevel. A call is one step. call records its arguments,   *)
(* how it ended (err) and the commands SSH.send wrote for it (sent).       *)
(***************************************************************************)
NoCall ==
    [op |-> "none", block |-> "", chan |-> 0, mute |-> FALSE, val |-> 0,
     wasReady |-> FALSE, wasActive |-> FALSE, tried |-> FALSE,
     err |-> "none", ret |-> "none", sent |-> <<>>]

\* "<block>" set mute <c> <true|false> and "<block>" set level <c> <value>
Cmd(b, attr, c, m, x) == [block |-> b, attr |-> attr, chan |-> c, mute |-> m, val |-> x]

\* The block types setMute accepts (line 317) and setLevel accepts (line 351).
MuteTypes == {"LevelControl", "MuteControl", "DanteInput", "DanteOutput", "AudioOutput"}
SetLevelTypes == {"LevelControl", "DanteInput", "DanteOutput", "AudioOutput"}

\* Accessors without the readiness assertion.
ReadyCheckOff == TRUE

\* The assertion at the head of every accessor: assert self.ready.
ReadyCheck == ready

\* Lines 321-327 and 355-361: channel 0 is every key of the block's channel map,
\* any other channel must be a key of it.
ChannelFound(blk, c) == c = 0 \/ IntKey(c) \in DOMAIN blk.channels
Targets(blk, c) == IF c = 0 THEN ChannelKeys(blk) ELSE <<IntKey(c)>>

\* A setLevel without the range test.
InRangeUnchecked(ch, x) == TRUE

\* Line 370: the value is sent for a channel only inside the channel's range.
InRange(ch, x) == ch.level.minimum <= x /\ x <= ch.level.maximum

\* The checks of setMute and setLevel, in the order of the code, and the commands
\* the call goes on to send when they pass.
Validate(a) ==
    IF ~ReadyCheck THEN [err |-> "NotReady", cmds |-> <<>>]
    ELSE IF a.block \notin DOMAIN blocks THEN [err |-> "NoSuchBlock", cmds |-> <<>>]
    ELSE LET blk == blocks[a.block] IN
         IF blk.type \notin (IF a.op = "setMute" THEN MuteTypes ELSE SetLevelTypes)
         THEN [err |-> "UnsupportedForBlockType", cmds |-> <<>>]
         ELSE IF ~ChannelFound(blk, a.chan)
         THEN [err |-> "NoSuchChannel", cmds |-> <<>>]
         ELSE LET ts == Targets(blk, a.chan)
                  sel == IF a.op = "setMute" THEN ts
                         ELSE SelectSeq(ts, LAMBDA k : InRange(blk.channels[k], a.val))
              IN [err |-> "none",
                  cmds |-> [i \in 1..Len(sel) |->
                              IF a.op = "setMute"
                              THEN Cmd(a.block, "mute", sel[i][2], a.mute, 0)
                              ELSE Cmd(a.block, "level", sel[i][2], FALSE, a.val)]]

\* An accessor: blocks, supportedBlocks, block(id).
Accessor(a) ==
    /\ a.op \in {"blocks", "supportedBlocks", "block"}
    /\ call' = [a EXCEPT !.wasReady = ready, !.wasActive = Active,
                  !.err = IF ReadyCheck THEN "none" ELSE "NotReady",
                  !.ret = IF ReadyCheck /\ (a.op # "block" \/ a.block \in DOMAIN blocks)
                          THEN "data" ELSE "none"]
    /\ UNCHANGED chan

\* setMute and setLevel: the checks, then one SSH.send per command. A send raises
\* when the session is not usable; the session may also go down after k sends.
Setter(a) ==
    /\ a.op \in {"setMute", "setLevel"}
    /\ LET v == Validate(a) IN
       IF v.err # "none" \/ v.cmds = <<>>
       THEN /\ call' = [a EXCEPT !.wasReady = ready, !.wasActive = Active, !.err = v.err]
            /\ UNCHANGED chan
       ELSE IF ~SessionUsable
       THEN /\ call' = [a EXCEPT !.wasReady = ready, !.wasActive = Active, !.tried = TRUE,
                          !.err = "TransportDown"]
            /\ UNCHANGED chan
       ELSE \E k \in 1..Len(v.cmds) :
               /\ call' = [a EXCEPT !.wasReady = ready, !.wasActive = Active, !.tried = TRUE,
                             !.err = IF k = Len(v.cmds) THEN "none" ELSE "TransportDown",
                             !.sent = SubSeq(v.cmds, 1, k)]
               /\ chan' = IF k = Len(v.cmds) THEN chan ELSE "closed"

ApiArg(o, b, c, m, x) == [NoCall EXCEPT !.op = o, !.block = b, !.chan = c, !.mute = m, !.val = x]

ApiCall(args) == \E a \in args : Accessor(a) \/ Setter(a)

(***************************************************************************)
(* close(): Tesira.close sets the device's exit flag, joins the reader and *)
(* calls SSH.close, which sets the transport's exit flag, joins the        *)
(* supervisor and closes the channel and the session.                      *)
(***************************************************************************)
DeviceCloseCall ==
    /\ closePc = "idle"
    /\ nClose < MaxClose
    /\ initPc = "done"
    /\ exitD' = TRUE
    /\ closePc' = "dJoin"
    /\ UNCHANGED <<nClose, dClosed, closeErr, exitT, chan, session>>

\* A Tesira.close that does not wait for the reader.
ReaderNotJoined == TRUE

\* readThread.join() returns once the reader thread has ended; SSH.close() begins.
ReaderJoined == readerPc \in {"done", "dead"}

DeviceCloseJoin ==
    /\ closePc = "dJoin"
    /\ ReaderJoined
    /\ exitT' = TRUE
    /\ closePc' = "dtJoin"
    /\ UNCHANGED <<nClose, dClosed, closeErr, exitD, chan, session>>

\* SSH.close() called on the transport itself.
TransportCloseCall ==
    /\ closePc = "idle"
    /\ nClose < MaxClose
    /\ exitT' = TRUE
    /\ closePc' = "tJoin"
    /\ UNCHANGED <<nClose, dClosed, closeErr, exitD, chan, session>>

\* An SSH.close that does not wait for the supervisor.
SupervisorNotJoined == TRUE

\* thread.join() of SSH.close returns once the supervisor has terminated.
SupervisorJoined == supPc = "done"

\* Lines 185-189: the channel is closed if there is one and it is not closed
\* yet, the session if there is one. Closing an object that is not there raises.
ChannelGuard == chan # "none" /\ chan # "closed"
SessionGuard == session # "none"
CloseChannel == IF ChannelGuard THEN "closed" ELSE chan
CloseSession == IF SessionGuard THEN "closed" ELSE session
CloseRaises == (ChannelGuard /\ chan = "none") \/ (SessionGuard /\ session = "none")

TransportCloseFinish ==
    /\ closePc \in {"tJoin", "dtJoin"}
    /\ SupervisorJoined
    /\ chan' = CloseChannel
    /\ session' = CloseSession
    /\ dClosed' = (dClosed \/ closePc = "dtJoin")
    /\ closePc' = "idle"
    /\ nClose' = nClose + 1
    /\ closeErr' = (closeErr \/ CloseRaises)
    /\ UNCHANGED <<exitT, exitD>>

(***************************************************************************)
(* Text. A string is the sequence of its characters; the line loop of      *)
(* Tesira.__readLoop and the first step of Tesira.__parseResponse work on  *)
(* one newline-terminated segment of the receive buffer.                   *)
(***************************************************************************)
NoRes == [op |-> "none"]

\* The characters str.strip() removes.
Whitespace == {" ", "\r", "\t"}

RECURSIVE LStrip(_)
LStrip(s) == IF s # <<>> /\ Head(s) \in Whitespace THEN LStrip(Tail(s)) ELSE s

RECURSIVE RStrip(_)
RStrip(s) ==
    IF s # <<>> /\ s[Len(s)] \in Whitespace THEN RStrip(SubSeq(s, 1, Len(s) - 1)) ELSE s

Strip(s) == RStrip(LStrip(s))

\* s.startswith(p) and s[n:]
StartsWith(s, p) == Len(s) >= Len(p) /\ SubSeq(s, 1, Len(p)) = p
Drop(s, n) == SubSeq(s, n + 1, Len(s))

\* str.splitlines() on a text without "\n": the pieces between carriage returns,
\* without an empty piece after the last one.
RECURSIVE SplitLines(_)
SplitLines(s) ==
    IF s = <<>> THEN <<>>
    ELSE IF \E i \in 1..Len(s) : s[i] = "\r"
    THEN LET i == CHOOSE j \in 1..Len(s) : s[j] = "\r" /\ \A k \in 1..(j - 1) : s[k] # "\r"
         IN <<SubSeq(s, 1, i - 1)>> \o SplitLines(Drop(s, i))
    ELSE <<s>>

OkPrefix == <<"+", "O", "K">>
ErrPrefix == <<"-", "E", "R", "R">>
PushPrefix == <<"!">>

\* The test of line 461 on the stripped segment.
Dispatched(grab) ==
    \/ StartsWith(grab, OkPrefix)
    \/ StartsWith(grab, <<"+", "E", "R", "R">>)
    \/ StartsWith(grab, PushPrefix)

\* Lines 571-583: the first line with a response prefix gives the type of the
\* response and, stripped of the prefix, its text.
RECURSIVE FirstResponse(_)
FirstResponse(ls) ==
    IF ls = <<>> THEN [type |-> "none", line |-> <<>>]
    ELSE LET l == Head(ls) IN
         IF StartsWith(l, OkPrefix) THEN [type |-> "ok", line |-> Strip(Drop(l, 3))]
         ELSE IF StartsWith(l, ErrPrefix) THEN [type |-> "error", line |-> Strip(Drop(l, 4))]
         ELSE IF StartsWith(l, PushPrefix)
         THEN [type |-> "subscription", line |-> Strip(Drop(l, 1))]
         ELSE FirstResponse(Tail(ls))

\* Lines 565-588: nothing is parsed from an empty text or from one without a
\* line that has a response prefix.
Classify(resp) ==
    IF Strip(resp) = <<>> THEN [type |-> "none", line |-> <<>>]
    ELSE FirstResponse(SplitLines(resp))

\* One turn of the line loop (lines 455-462) on the segment txt: the segment is
\* stripped and, if line 461 lets it through, handed to __processReceivedData,
\* whose parser classifies it.
ReadSegment ==
    /\ res = NoRes
    /\ LET grab == Strip(txt)
           c == IF Dispatched(grab) THEN Classify(grab) ELSE [type |-> "none", line |-> <<>>]
       IN res' = [op |-> "segment", grab |-> grab, dispatched |-> Dispatched(grab),
                  type |-> c.type, line |-> c.line]
    /\ UNCHANGED txt

(***************************************************************************)
(* Tesira.__valFormat: a raw token becomes a float, a bool or a string. A  *)
(* float read from text is counted in units of 1/Scale.                    *)
(***************************************************************************)
Scale == 10 ^ MaxTok

DigitChars == <<"0", "1", "2", "3", "4", "5", "6", "7", "8", "9">>
IsDigit(c) == \E i \in 1..10 : DigitChars[i] = c
DigitVal(c) == (CHOOSE i \in 1..10 : DigitChars[i] = c) - 1

UpperChars == <<"A", "E", "F", "L", "N", "O", "R", "S", "T", "U", "Y">>
LowerChars == <<"a", "e", "f", "l", "n", "o", "r", "s", "t", "u", "y">>

\* A comparison of the words as they are written.
LowerOff(s) == s

\* str.lower()
Lower(s) ==
    [i \in 1..Len(s) |->
        IF \E j \in 1..Len(UpperChars) : UpperChars[j] = s[i]
        THEN LowerChars[CHOOSE j \in 1..Len(UpperChars) : UpperChars[j] = s[i]]
        ELSE s[i]]

TrueWords == {<<"t", "r", "u", "e">>, <<"y", "e", "s">>, <<"o", "n">>}
FalseWords == {<<"f", "a", "l", "s", "e">>, <<"n", "o">>, <<"o", "f", "f">>}

\* The texts float() takes, among those made of a sign, digits and points: an
\* optional sign, then digits with at most one point and at least one digit.
Unsigned(s) == IF s # <<>> /\ Head(s) \in {"-", "+"} THEN Tail(s) ELSE s

IsFloatText(s) ==
    LET u == Unsigned(s) IN
    /\ \E i \in 1..Len(u) : IsDigit(u[i])
    /\ \A i \in 1..Len(u) : IsDigit(u[i]) \/ u[i] = "."
    /\ Cardinality({i \in 1..Len(u) : u[i] = "."}) <= 1

RECURSIVE DigitsValue(_)
DigitsValue(ds) ==
    IF ds = <<>> THEN 0 ELSE 10 * DigitsValue(SubSeq(ds, 1, Len(ds) - 1)) + DigitVal(ds[Len(ds)])

\* float(s), for a text IsFloatText takes with at most MaxTok decimals.
FloatOf(s) ==
    LET u == Unsigned(s)
        p == IF \E i \in 1..Len(u) : u[i] = "." THEN CHOOSE i \in 1..Len(u) : u[i] = "."
             ELSE Len(u) + 1
        whole == SubSeq(u, 1, p - 1)
        frac == SubSeq(u, p + 1, Len(u))
        n == DigitsValue(whole) * Scale + DigitsValue(frac) * (10 ^ (MaxTok - Len(frac)))
    IN IF s # <<>> /\ Head(s) = "-" THEN 0 - n ELSE n

RECURSIVE DigitsOf(_)
DigitsOf(n) ==
    IF n < 10 THEN <<DigitChars[n + 1]>> ELSE DigitsOf(n \div 10) \o <<DigitChars[(n % 10) + 1]>>

\* The decimals of a float, without the zeros at the end.
RECURSIVE Decimals(_, _)
Decimals(f, width) ==
    IF f = 0 \/ width = 0 THEN <<>>
    ELSE LET unit == 10 ^ (width - 1)
         IN <<DigitChars[(f \div unit) + 1]>> \o Decimals(f % unit, width - 1)

\* str(x) of a float, a bool and a string: repr gives a float its shortest text,
\* with a point and at least one decimal.
PyStr(v) ==
    IF v[1] = "num"
    THEN LET a == IF v[2] < 0 THEN 0 - v[2] ELSE v[2]
             d == Decimals(a % Scale, MaxTok)
         IN (IF v[2] < 0 THEN <<"-">> ELSE <<>>)
            \o DigitsOf(a \div Scale) \o <<".">> \o (IF d = <<>> THEN <<"0">> ELSE d)
    ELSE IF v[1] = "bool"
    THEN IF v[2] THEN <<"T", "r", "u", "e">> ELSE <<"F", "a", "l", "s", "e">>
    ELSE v[2]

\* Lines 543-556.
ValFormat(s) ==
    LET v == Strip(s) IN
    IF IsFloatText(v) THEN Num(FloatOf(v))
    ELSE IF Lower(v) \in TrueWords THEN Bool(TRUE)
    ELSE IF Lower(v) \in FalseWords THEN Bool(FALSE)
    ELSE Str(v)

\* The normaliser applied to a token, and again to the text of what it gave.
Normalise ==
    /\ res = NoRes
    /\ res' = [op |-> "token", first |-> ValFormat(txt),
               again |-> ValFormat(PyStr(ValFormat(txt)))]
    /\ UNCHANGED txt

(***************************************************************************)
(* Tesira.__parseResponse on a subscription line, after the regular        *)
(* expression of line 623 has cut it into items: a key and the text of its *)
(* value, or of the elements of its list. The text of a publish token is   *)
(* cut in pieces, each one character or one four-character tag.            *)
(***************************************************************************)
Item(k, isList, ts) == [key |-> k, list |-> isList, texts |-> ts]

\* Lines 398-403.
SubscriptionTypeIDs ==
    [k \in {"levels", "mutes", "streaming", "connected"} |->
        IF k = "levels" THEN <<"LVLA">>
        ELSE IF k = "mutes" THEN <<"MUTA">>
        ELSE IF k = "streaming" THEN <<"USTR">>
        ELSE <<"UCON">>]

FourCharPieces == {"LVLA", "MUTA", "USTR", "UCON", "ZZZZ"}

\* len(s)
RECURSIVE TextLen(_)
TextLen(s) ==
    IF s = <<>> THEN 0
    ELSE (IF Head(s) \in FourCharPieces THEN 4 ELSE 1) + TextLen(Tail(s))

\* The place of the first "_" of s, or 0.
Underscore(s) ==
    IF \E i \in 1..Len(s) : s[i] = "_"
    THEN CHOOSE i \in 1..Len(s) : s[i] = "_" /\ \A j \in 1..(i - 1) : s[j] # "_"
    ELSE 0

\* s.split("_", 2)
SplitToken(s) ==
    IF Underscore(s) = 0 THEN <<s>>
    ELSE LET first == SubSeq(s, 1, Underscore(s) - 1)
             rest == Drop(s, Underscore(s))
         IN IF Underscore(rest) = 0 THEN <<first, rest>>
            ELSE <<first, SubSeq(rest, 1, Underscore(rest) - 1), Drop(rest, Underscore(rest))>>

\* Lines 625-636: every item's value is normalised; of two items with one key the
\* later one stays.
RData(items) ==
    [k \in {items[i].key : i \in 1..Len(items)} |->
        LET last == CHOOSE i \in 1..Len(items) :
                        /\ items[i].key = k
                        /\ \A j \in (i + 1)..Len(items) : items[j].key # k
            it == items[last]
        IN [list |-> it.list,
            vals |-> IF it.list THEN [i \in 1..Len(it.texts) |-> ValFormat(it.texts[i])]
                     ELSE <<ValFormat(it.texts[1])>>]]

Rejected(why) == [ok |-> FALSE, err |-> why]

\* Lines 417-425: the tag is one of the table's.
STIDKnown(stid) == \E k \in DOMAIN SubscriptionTypeIDs : SubscriptionTypeIDs[k] = stid

SubscriptionTypeBySTID(stid) ==
    IF \E k \in DOMAIN SubscriptionTypeIDs : SubscriptionTypeIDs[k] = stid
    THEN CHOOSE k \in DOMAIN SubscriptionTypeIDs : SubscriptionTypeIDs[k] = stid
    ELSE "connected"

\* Lines 639-659: the assertions on the items, the split of the publish token and
\* the lookup of its tag, each of which raises on a line it does not take.
ParseSubscription(items) ==
    LET r == RData(items) IN
    IF "value" \notin DOMAIN r THEN Rejected("no data value")
    ELSE IF "publishToken" \notin DOMAIN r THEN Rejected("no publish token")
    ELSE LET rt == r["publishToken"].vals[1] IN
         IF r["publishToken"].list \/ rt[1] # "str" THEN Rejected("AttributeError")
         ELSE IF ~StartsWith(rt[2], <<"S", "_">>) THEN Rejected("non-prefixed")
         ELSE LET parts == SplitToken(rt[2]) IN
              IF Len(parts) < 3 THEN Rejected("IndexError")
              ELSE IF TextLen(Strip(parts[2])) # 4 THEN Rejected("invalid type ID")
              ELSE IF ~STIDKnown(Strip(parts[2])) THEN Rejected("STID match failed")
              ELSE [ok |-> TRUE, err |-> "none",
                    type |-> SubscriptionTypeBySTID(Strip(parts[2])),
                    dspBlock |-> Strip(parts[3]),
                    list |-> r["value"].list, vals |-> r["value"].vals]

\* The block a text names: the blocks of the device have names of one character.
BlockName(t) == IF Len(t) = 1 THEN t[1] ELSE ""

\* __processReceivedData on the subscription line whose items are txt (lines
\* 472-537): a line the parser raised on is logged and left alone, as is one for
\* a name that is no block; any other line is applied to the block map.
ParseLine ==
    /\ res = NoRes
    /\ LET p == ParseSubscription(txt) IN
       IF p.ok
       THEN /\ blocks' = ApplyFrame(blocks, Frame(p.type, BlockName(p.dspBlock), p.list, p.vals))
            /\ res' = [op |-> "line", ok |-> TRUE,
                       err |-> IF BlockName(p.dspBlock) \in DOMAIN blocks THEN "none"
                               ELSE "invalid block"]
       ELSE /\ blocks' = blocks
            /\ res' = [op |-> "line", ok |-> FALSE, err |-> p.err]
    /\ UNCHANGED txt

\* Line 415: the publish token of a subscribe command for a block ID.
PublishTokenOf(k, id) == <<"S", "_">> \o SubscriptionTypeIDs[k] \o <<"_">> \o id

\* The items of the line the device pushes for a subscription: the token as it
\* was given in the subscribe command, and a value.
PushLine(k, id) ==
    <<Item("publishToken", FALSE, <<PublishTokenOf(k, id)>>),
      Item("value", FALSE, << <<"t", "r", "u", "e">> >>)>>

\* __parseResponse on the subscription line whose items are txt.
Decode ==
    /\ res = NoRes
    /\ res' = [op |-> "decoded", parsed |-> ParseSubscription(txt)]
    /\ UNCHANGED txt

(***************************************************************************)
(* Concurrent callers of the control API. Every calling thread runs        *)
(* setMute or setLevel by itself: the checks, then for each command        *)
(* SSH.send, which tests the session (line 152) and writes the line (line  *)
(* 153), then the return. Neither Tesira nor SSH takes a lock.             *)
(***************************************************************************)
Writers == {1, 2}

WrIdle == [pc |-> "idle", todo |-> <<>>, rank |-> 0]

\* The calls that have returned.
Returned == {w \in Writers : wr[w].pc = "returned"}

\* Lines 308-327 and 339-361: the checks of the call; a call that passes them
\* goes on to send its commands.
WriterCall(w, a) ==
    /\ wr[w].pc = "idle"
    /\ LET v == Validate(a) IN
       IF v.err # "none" THEN wr' = [wr EXCEPT ![w].pc = "raised"]
       ELSE IF v.cmds = <<>> THEN wr' = [wr EXCEPT ![w].pc = "last"]
       ELSE wr' = [wr EXCEPT ![w].pc = "send", ![w].todo = v.cmds]
    /\ UNCHANGED <<wire, chan>>

\* SSH.send, line 152: the session is usable, or the call raises.
WriterTest(w) ==
    /\ wr[w].pc = "send"
    /\ wr' = [wr EXCEPT ![w].pc = IF SessionUsable THEN "write" ELSE "raised"]
    /\ UNCHANGED <<wire, chan>>

\* SSH.send, line 153: the line is written to the channel, or the channel was
\* closed since the test and the write raises.
WriterWrite(w) ==
    /\ wr[w].pc = "write"
    /\ IF chan = "open"
       THEN /\ wire' = Append(wire, [by |-> w, cmd |-> Head(wr[w].todo)])
            /\ wr' = [wr EXCEPT ![w].todo = Tail(@),
                                ![w].pc = IF Len(wr[w].todo) = 1 THEN "last" ELSE "send"]
       ELSE /\ wr' = [wr EXCEPT ![w].pc = "raised"]
            /\ UNCHANGED wire
    /\ UNCHANGED chan

\* Lines 336-337 and 378-379: the call returns.
WriterReturn(w) ==
    /\ wr[w].pc = "last"
    /\ wr' = [wr EXCEPT ![w].pc = "returned", ![w].rank = Cardinality(Returned) + 1]
    /\ UNCHANGED <<wire, chan>>

(***************************************************************************)
(* The answers to the requests of discovery as bytes. The device writes    *)
(* the response to a request to the channel, where it arrives whole or in  *)
(* two pieces; send_wait returns the first buffer a poll finds (SSH.py     *)
(* lines 166-170), and nothing empties the channel before a request is     *)
(* sent. ready holds the pieces that have arrived, coming those under way. *)
(***************************************************************************)
NoBytes == [ready |-> <<>>, coming |-> <<>>]

Piece(i, part) == [req |-> i, part |-> part]

\* The ways the response to request i travels.
Cuts(i) == {<<Piece(i, "whole")>>, <<Piece(i, "head"), Piece(i, "tail")>>}

\* The pieces one recv returns, as one text: the head and the tail of a response
\* that have both arrived make the whole response.
RECURSIVE Joined(_)
Joined(ps) ==
    IF Len(ps) < 2 THEN ps
    ELSE IF ps[1].part = "head" /\ ps[2] = Piece(ps[1].req, "tail")
    THEN <<Piece(ps[1].req, "whole")>> \o Joined(SubSeq(ps, 3, Len(ps)))
    ELSE <<ps[1]>> \o Joined(Tail(ps))

\* Lines 571-583 on the buffer: the first line with a response prefix is parsed.
\* The tail of a response has none; its head has one, and a value cut short.
RECURSIVE FirstAnswer(_)
FirstAnswer(ps) ==
    IF ps = <<>> THEN Piece(0, "none")
    ELSE IF ps[1].part \in {"whole", "head"} THEN ps[1]
    ELSE FirstAnswer(Tail(ps))

\* The requests whose answer __init__ stores nothing of (lines 57-58).
Ignored(i) == i \in {4, 5}

\* The model follows the constructor as long as every value it stored was parsed
\* from the whole response to the request that asked for it.
AnswersRight ==
    IF res = NoRes THEN TRUE ELSE Ignored(res.req) \/ res.from = Piece(res.req, "whole")

\* A piece under way arrives in the channel's receive buffer.
Arrive ==
    /\ inbox.coming # <<>>
    /\ inbox' = [ready |-> Append(inbox.ready, Head(inbox.coming)), coming |-> Tail(inbox.coming)]
    /\ UNCHANGED <<dvars, res>>

\* send_wait, first half, and the device's response to the request written.
StreamSend ==
    /\ AnswersRight
    /\ InitSend
    /\ IF initPc' = "wait"
       THEN \E cut \in Cuts(reqIdx) : inbox' = [inbox EXCEPT !.coming = @ \o cut]
       ELSE UNCHANGED inbox
    /\ UNCHANGED res

\* send_wait, second half: one poll of the channel. The buffer that is there is
\* returned and parsed, or time passes; at commandTimeout the function raises.
StreamPoll ==
    /\ AnswersRight
    /\ initPc = "wait"
    /\ IF swClock < commandTimeout
       THEN IF chan = "open" /\ inbox.ready # <<>>
            THEN LET a == FirstAnswer(Joined(inbox.ready)) IN
                 /\ inbox' = [inbox EXCEPT !.ready = <<>>]
                 /\ res' = [op |-> "answer", req |-> reqIdx, from |-> a]
                 /\ sw' = [sw EXCEPT !.st = "returned", !.got = TRUE]
                 /\ swClock' = 0
                 /\ IF Ignored(reqIdx) \/ a = Piece(reqIdx, "whole")
                    THEN InitAdvance /\ info' = InfoAfter("parsed")
                    ELSE UNCHANGED <<initPc, reqIdx, blocks, disc, info>>
            ELSE /\ swClock' = swClock + ClockStep
                 /\ UNCHANGED <<sw, initPc, reqIdx, blocks, disc, info, inbox, res>>
       ELSE /\ sw' = [sw EXCEPT !.st = "raised", !.err = SendWaitExpiry]
            /\ initPc' = "failed"
            /\ swClock' = 0
            /\ reqIdx' = 0
            /\ UNCHANGED <<blocks, disc, info, inbox, res>>
    /\ UNCHANGED <<ready, cacheFile, subs, exitD>>

(***************************************************************************)
(* The system.                                                             *)
(***************************************************************************)
InitWith(files) ==
    /\ connected = FALSE
    /\ session = "none"
    /\ chan = "none"
    /\ banner = FALSE
    /\ supPc = "loop"
    /\ hsClock = 0
    /\ exitT = FALSE
    /\ ready = FALSE
    /\ initPc = "waitActive"
    /\ reqIdx = 0
    /\ swClock = 0
    /\ sw = SwIdle
    /\ cacheFile \in files
    /\ info = NoInfo
    /\ disc = [probes |-> FALSE, saved |-> <<>>]
    /\ blocks = <<>>
    /\ subs = <<>>
    /\ exitD = FALSE
    /\ readerPc = "none"
    /\ rxBuf = <<>>
    /\ rd = RdNone
    /\ call = NoCall
    /\ closePc = "idle"
    /\ nClose = 0
    /\ dClosed = FALSE
    /\ closeErr = FALSE
    /\ txt = <<>>
    /\ res = NoRes
    /\ wr = [w \in Writers |-> WrIdle]
    /\ wire = <<>>
    /\ subSession = FALSE
    /\ inbox = NoBytes

Init == InitWith({"none", "match"})

tRest == <<connected, session, banner, supPc, hsClock, exitT>>

Supervisor ==
    /\ SupCheck \/ SupConnect \/ SupHandshake
    /\ SubscriptionsKept
    /\ UNCHANGED inbox
    /\ UNCHANGED <<dvars, rvars, call, cvars, pvars, wvars>>

Remote ==
    /\ SessionDrop
    /\ SubscriptionsKept
    /\ UNCHANGED inbox
    /\ UNCHANGED <<dvars, rvars, call, cvars, pvars, wvars>>

Construct ==
    \/ /\ InitWaitActive \/ InitSend \/ InitPoll
       /\ UNCHANGED <<tvars, rvars, call, cvars, pvars, wvars, subSession, inbox>>
    \/ /\ InitStartReader
       /\ UNCHANGED <<tvars, call, cvars, pvars, wvars, subSession, inbox>>
    \/ /\ InitSubscribe
       /\ SubscriptionsMade
       /\ UNCHANGED inbox
       /\ UNCHANGED <<tRest, rvars, call, cvars, pvars, wvars>>

dRest == <<ready, initPc, reqIdx, swClock, sw, cacheFile, info, disc, subs, exitD>>

Reader(frames) ==
    /\ ReaderPoll \/ ReaderMore \/ ReaderRecv(frames) \/ ReaderExit
    /\ UNCHANGED <<tvars, dRest, call, cvars, pvars, wvars, subSession, inbox>>

Api(args) ==
    /\ ApiCall(args)
    /\ SubscriptionsKept
    /\ UNCHANGED inbox
    /\ UNCHANGED <<tRest, dvars, rvars, cvars, pvars, wvars>>

Close ==
    /\ DeviceCloseCall \/ DeviceCloseJoin \/ TransportCloseCall \/ TransportCloseFinish
    /\ UNCHANGED <<connected, banner, supPc, hsClock,
                   ready, initPc, reqIdx, swClock, sw, cacheFile, info, disc, blocks, subs,
                   rvars, call, pvars, wvars>>
    /\ SubscriptionsKept
    /\ UNCHANGED inbox

\* The inputs of the lifecycle specification.
LifecycleFrames ==
    {Frame("mutes", "M", TRUE, <<Bool(TRUE)>>),
     Frame("connected", "U", FALSE, <<Bool(TRUE)>>)}

LifecycleArgs ==
    {ApiArg("blocks", "", 0, FALSE, 0),
     ApiArg("supportedBlocks", "", 0, FALSE, 0),
     ApiArg("block", "G", 0, FALSE, 0),
     ApiArg("setMute", "M", 0, TRUE, 0),
     ApiArg("setLevel", "G", 0, FALSE, 0)}

\* The inputs of the control API specification.
ApiBlocks == {"G", "M", "U", "S", "D"}
ApiChannels == {0, 1, 2}
ApiLevels == {-1, 0, 1, 2}

AllArgs ==
    {ApiArg("blocks", "", 0, FALSE, 0), ApiArg("supportedBlocks", "", 0, FALSE, 0)}
    \cup {ApiArg("block", b, 0, FALSE, 0) : b \in ApiBlocks}
    \cup {ApiArg("setMute", b, c, m, 0) : b \in {"G", "M"}, c \in ApiChannels, m \in BOOLEAN}
    \cup {ApiArg("setMute", b, c, TRUE, 0) : b \in {"U", "S", "D"}, c \in {0, 1}}
    \cup {ApiArg("setLevel", "G", c, FALSE, x) : c \in ApiChannels, x \in ApiLevels}
    \cup {ApiArg("setLevel", b, c, FALSE, 0) : b \in {"M", "U", "S", "D"}, c \in {0, 1}}

Next ==
    \/ Supervisor
    \/ Remote
    \/ Construct
    \/ Reader(LifecycleFrames)
    \/ Api(LifecycleArgs)
    \/ Close

Spec == Init /\ [][Next]_vars

\* The control API is exercised on a constructed device: the state in which
\* __init__ returns, with the model it discovered or the one it loaded.
ConstructedWith(texts) ==
    /\ connected = TRUE
    /\ session = "open"
    /\ chan = "open"
    /\ banner = TRUE
    /\ supPc = "loop"
    /\ hsClock = 0
    /\ exitT = FALSE
    /\ ready = TRUE
    /\ initPc = "done"
    /\ reqIdx = 0
    /\ swClock = 0
    /\ sw = [st |-> "returned", wasActive |-> TRUE, wrote |-> TRUE, got |-> TRUE, err |-> "none"]
    /\ info = LiveHeader
    /\ \/ /\ cacheFile = "none"
          /\ blocks = DiscoveredBlocks
          /\ disc = [probes |-> TRUE,
                     saved |-> <<[header |-> LiveHeader, blocks |-> CachedBlocks]>>]
       \/ /\ cacheFile = "match"
          /\ blocks = CachedBlocks
          /\ disc = [probes |-> FALSE, saved |-> <<>>]
    /\ subs = SubscribeCommands(blocks)
    /\ exitD = FALSE
    /\ readerPc = "run"
    /\ rxBuf = <<>>
    /\ rd = RdNone
    /\ call = NoCall
    /\ closePc = "idle"
    /\ nClose = 0
    /\ dClosed = FALSE
    /\ closeErr = FALSE
    /\ txt \in texts
    /\ res = NoRes
    /\ wr = [w \in Writers |-> WrIdle]
    /\ wire = <<>>
    /\ subSession = TRUE
    /\ inbox = NoBytes

Constructed == ConstructedWith({<<>>})

\* The threads and a close() in progress keep running: the supervisor thread,
\* the reader thread, and the joins and the teardown of a close() that was
\* called. Nothing makes a caller call, or the device answer.
CloseProceeds ==
    /\ DeviceCloseJoin \/ TransportCloseFinish
    /\ UNCHANGED <<connected, banner, supPc, hsClock,
                   ready, initPc, reqIdx, swClock, sw, cacheFile, info, disc, blocks, subs,
                   rvars, call, pvars, wvars>>
    /\ SubscriptionsKept
    /\ UNCHANGED inbox

NextLive ==
    \/ Supervisor
    \/ Remote
    \/ Construct
    \/ Reader(LifecycleFrames)
    \/ Close

SpecLive ==
    /\ Init
    /\ [][NextLive]_vars
    /\ WF_vars(Supervisor)
    /\ WF_vars(Reader(LifecycleFrames))
    /\ WF_vars(CloseProceeds)

\* The inputs of the router specification: lines for blocks of two kinds, for
\* a name that is no block, with values float() takes and rejects, and a line
\* that is no subscription.
RouterFrames ==
    {Frame("levels", "G", TRUE, <<Num(2), Num(0)>>),
     Frame("levels", "G", TRUE, <<Num(0), Str("x")>>),
     Frame("mutes", "G", TRUE, <<Bool(TRUE), Bool(FALSE)>>),
     Frame("streaming", "U", FALSE, <<Bool(TRUE)>>),
     Frame("mutes", "D", TRUE, <<Bool(TRUE)>>),
     Frame("ok", "", FALSE, <<Str("cmd_response_ok")>>)}

\* The router is exercised on a constructed device whose session stays up.
NextRouter == Reader(RouterFrames)

SpecRouter == Constructed /\ [][NextRouter]_vars

\* Construction with every kind of cache file.
NextCache ==
    \/ Supervisor
    \/ Remote
    \/ Construct

InitCache == InitWith({"none"} \cup CacheFiles)

SpecCache == InitCache /\ [][NextCache]_vars

\* Construction on a device whose answers to the first three requests may be
\* buffers the parser makes nothing of.
ConstructAny ==
    \/ /\ InitWaitActive \/ InitSend \/ InitPollWith({"parsed", "nonsense"})
       /\ UNCHANGED <<tvars, rvars, call, cvars, pvars, wvars, subSession, inbox>>
    \/ /\ InitStartReader
       /\ UNCHANGED <<tvars, call, cvars, pvars, wvars, subSession, inbox>>
    \/ /\ InitSubscribe
       /\ SubscriptionsMade
       /\ UNCHANGED inbox
       /\ UNCHANGED <<tRest, rvars, call, cvars, pvars, wvars>>

NextHeader ==
    \/ Supervisor
    \/ Remote
    \/ ConstructAny

SpecHeader == Init /\ [][NextHeader]_vars

NextApi ==
    \/ Supervisor
    \/ Remote
    \/ Api(AllArgs)

SpecApi == Constructed /\ [][NextApi]_vars

\* The characters of the segments tried, and their greatest length.
SegChars == {"+", "-", "!", "O", "K", "E", "R", " ", "\r"}

Segments == UNION {[1..n -> SegChars] : n \in 0..MaxSeg}

Segment ==
    /\ ReadSegment
    /\ UNCHANGED <<tvars, dvars, rvars, call, cvars, wvars, subSession, inbox>>

InitSegment == ConstructedWith(Segments) /\ cacheFile = "none"

SpecSegment == InitSegment /\ [][Segment]_vars

\* Subscription setup on devices whose first two blocks are of any type: the
\* state in which __init__ reaches __setupSubscriptions, after a discovery.
DeviceTypes == SupportedTypes \cup {"SourceSelector"}

DeviceModels ==
    {[b \in DOMAIN DiscoveredBlocks |->
         IF b = "G" THEN BlockOfType(t1, 2, FALSE)
         ELSE IF b = "M" THEN BlockOfType(t2, 1, TRUE)
         ELSE DiscoveredBlocks[b]] : t1 \in DeviceTypes, t2 \in DeviceTypes}

InitSubscribing ==
    /\ connected = TRUE
    /\ session = "open"
    /\ chan = "open"
    /\ banner = TRUE
    /\ supPc = "loop"
    /\ hsClock = 0
    /\ exitT = FALSE
    /\ ready = FALSE
    /\ initPc = "subscribe"
    /\ reqIdx = 0
    /\ swClock = 0
    /\ sw = [st |-> "returned", wasActive |-> TRUE, wrote |-> TRUE, got |-> TRUE, err |-> "none"]
    /\ info = LiveHeader
    /\ cacheFile = "none"
    /\ blocks \in DeviceModels
    /\ disc = [probes |-> TRUE,
               saved |-> <<[header |-> LiveHeader,
                            blocks |-> [b \in DOMAIN blocks |-> JsonRoundTripBlock(blocks[b])]]>>]
    /\ subs = <<>>
    /\ exitD = FALSE
    /\ readerPc = "run"
    /\ rxBuf = <<>>
    /\ rd = RdNone
    /\ call = NoCall
    /\ closePc = "idle"
    /\ nClose = 0
    /\ dClosed = FALSE
    /\ closeErr = FALSE
    /\ txt = <<>>
    /\ res = NoRes
    /\ wr = [w \in Writers |-> WrIdle]
    /\ wire = <<>>
    /\ subSession = FALSE
    /\ inbox = NoBytes

Subscribe ==
    /\ InitSubscribe
    /\ SubscriptionsMade
    /\ UNCHANGED inbox
    /\ UNCHANGED <<tRest, rvars, call, cvars, pvars, wvars>>

NextSubscribe ==
    \/ Supervisor
    \/ Remote
    \/ Subscribe

SpecSubscribe == InitSubscribing /\ [][NextSubscribe]_vars

\* The characters of the raw tokens tried.
TokChars == {" ", "-", ".", "0", "1", "o", "n", "N"}

RawTokens == UNION {[1..n -> TokChars] : n \in 0..MaxTok}

Token ==
    /\ Normalise
    /\ UNCHANGED <<tvars, dvars, rvars, call, cvars, wvars, subSession, inbox>>

InitToken == ConstructedWith(RawTokens) /\ cacheFile = "none"

SpecToken == InitToken /\ [][Token]_vars

\* The subscription lines tried: with and without a publish token, with and
\* without a value; the token is any text of pieces.
TokenPieces == {"S", "_", " ", "UCON", "ZZZZ", "U"}

PublishTokens == UNION {[1..n -> TokenPieces] : n \in 0..MaxToken}

SubscriptionLines ==
    {t \o v : t \in {<<>>} \cup {<<Item("publishToken", FALSE, <<tok>>)>> : tok \in PublishTokens},
              v \in {<<>>, <<Item("value", FALSE, << <<"t", "r", "u", "e">> >>)>>}}

Line ==
    /\ ParseLine
    /\ UNCHANGED <<tvars, ready, initPc, reqIdx, swClock, sw, cacheFile, info, disc, subs, exitD,
                   rvars, call, cvars, wvars, subSession, inbox>>

InitLine == ConstructedWith(SubscriptionLines) /\ cacheFile = "none"

SpecLine == InitLine /\ [][Line]_vars

\* List-valued lines for the blocks with mute states and levels, of every
\* kind, and scalar lines for a USB block and for another one.
ListFrames ==
    {Frame("mutes", "G", TRUE, <<Bool(TRUE), Bool(TRUE)>>),
     Frame("mutes", "G", TRUE, <<Bool(FALSE), Bool(TRUE)>>),
     Frame("mutes", "M", TRUE, <<Bool(TRUE)>>),
     Frame("levels", "G", TRUE, <<Num(2), Num(0)>>),
     Frame("streaming", "G", TRUE, <<Num(1), Num(0)>>)}

SpecLists == Constructed /\ [][Reader(ListFrames)]_vars

ScalarFrames ==
    {Frame("connected", "U", FALSE, <<Bool(TRUE)>>),
     Frame("connected", "U", FALSE, <<Bool(FALSE)>>),
     Frame("streaming", "U", FALSE, <<Bool(TRUE)>>),
     Frame("mutes", "U", FALSE, <<Bool(TRUE)>>),
     Frame("connected", "G", FALSE, <<Bool(TRUE)>>)}

SpecScalars == Constructed /\ [][Reader(ScalarFrames)]_vars

\* Two threads that each make one call: a mute of both channels of a block, a
\* mute of one channel, a level for both channels.
WriterArgs ==
    {ApiArg("setMute", "G", 0, TRUE, 0),
     ApiArg("setMute", "M", 1, TRUE, 0),
     ApiArg("setLevel", "G", 0, FALSE, 0)}

Writer ==
    /\ \E w \in Writers :
          \/ \E a \in WriterArgs : WriterCall(w, a)
          \/ WriterTest(w)
          \/ WriterWrite(w)
          \/ WriterReturn(w)
    /\ UNCHANGED <<tRest, dvars, rvars, call, cvars, pvars, subSession, inbox>>

NextWriters ==
    \/ Supervisor
    \/ Remote
    \/ Writer

SpecWriters == Constructed /\ [][NextWriters]_vars

\* The reader thread runs as long as it has a step to take; the device sends
\* what it sends.
SpecListsLive ==
    /\ Constructed
    /\ [][Reader(ListFrames)]_vars
    /\ WF_vars(Reader(ListFrames))

\* List-valued lines with as many values as the block has channels, with fewer
\* and with more.
LengthFrames ==
    {Frame("mutes", "G", TRUE, <<Bool(TRUE), Bool(TRUE)>>),
     Frame("mutes", "G", TRUE, <<Bool(TRUE)>>),
     Frame("levels", "G", TRUE, <<Num(0), Num(0), Num(0)>>),
     Frame("levels", "G", TRUE, <<Num(0)>>),
     Frame("mutes", "M", TRUE, <<Bool(TRUE), Bool(FALSE)>>)}

SpecLengths == Constructed /\ [][Reader(LengthFrames)]_vars

\* The block IDs tried: texts of letters, digits, hyphens, underscores and
\* spaces.
IdChars == {"A", "1", "-", "_", " "}

BlockIdTexts == UNION {[1..n -> IdChars] : n \in 1..MaxId}

PushLines == {PushLine(k, id) : k \in DOMAIN SubscriptionTypeIDs, id \in BlockIdTexts}

RoundTrip ==
    /\ Decode
    /\ UNCHANGED <<tvars, dvars, rvars, call, cvars, wvars, subSession, inbox>>

InitRoundTrip == ConstructedWith(PushLines) /\ cacheFile = "none"

SpecRoundTrip == InitRoundTrip /\ [][RoundTrip]_vars

\* The control API and the reader on a constructed device, with a probed model
\* and with one loaded from the cache file that the probing wrote.
NextCacheUse ==
    \/ Api(AllArgs)
    \/ Reader(ListFrames)

SpecCacheUse == Constructed /\ [][NextCacheUse]_vars

\* Discovery answered over a channel of bytes: the session is up and stays up,
\* nothing is cached, and __init__ is about to send its first request.
InitStream ==
    /\ connected = TRUE
    /\ session = "open"
    /\ chan = "open"
    /\ banner = TRUE
    /\ supPc = "loop"
    /\ hsClock = 0
    /\ exitT = FALSE
    /\ ready = FALSE
    /\ initPc = "waitActive"
    /\ reqIdx = 0
    /\ swClock = 0
    /\ sw = SwIdle
    /\ cacheFile = "none"
    /\ info = NoInfo
    /\ disc = [probes |-> FALSE, saved |-> <<>>]
    /\ blocks = <<>>
    /\ subs = <<>>
    /\ exitD = FALSE
    /\ readerPc = "none"
    /\ rxBuf = <<>>
    /\ rd = RdNone
    /\ call = NoCall
    /\ closePc = "idle"
    /\ nClose = 0
    /\ dClosed = FALSE
    /\ closeErr = FALSE
    /\ txt = <<>>
    /\ res = NoRes
    /\ wr = [w \in Writers |-> WrIdle]
    /\ wire = <<>>
    /\ subSession = FALSE
    /\ inbox = NoBytes

Stream ==
    /\ InitWaitActive \/ StreamSend \/ StreamPoll
    /\ IF initPc = "waitActive" THEN UNCHANGED <<inbox, res>> ELSE TRUE
    /\ UNCHANGED <<tvars, rvars, call, cvars, txt, wvars, subSession>>

Network ==
    /\ Arrive
    /\ UNCHANGED <<tvars, rvars, call, cvars, txt, wvars, subSession>>

NextStream == Stream \/ Network

SpecStream == InitStream /\ [][NextStream]_vars

(***************************************************************************)
(* Properties.                                                             *)
(***************************************************************************)

\* C1 - ready changes only once: from false to true, in the step that ends the
\* constructor after the subscriptions were sent; no drop, reconnect, frame, API
\* call or close changes it again.
C1_ReadyOnce ==
    [][ready' # ready => (~ready /\ ready' /\ initPc = "subscribe" /\ initPc' = "done")]_vars

\* A ready device that lost its session and is reconnecting, after frames were
\* applied and an API call was served.
C1_Witness ==
    /\ ready
    /\ supPc = "handshake"
    /\ call.op # "none" /\ call.wasReady
    /\ blocks \notin {DiscoveredBlocks, CachedBlocks}

\* C2 - an accessor, setMute or setLevel called while ready is false fails with
\* the not-ready error, returns no data and writes no command.
C2_NotReadyRefused ==
    (call.op # "none" /\ ~call.wasReady) =>
        (call.err = "NotReady" /\ call.ret = "none" /\ call.sent = <<>> /\ ~call.tried)

\* setLevel refused during construction although the session was usable.
C2_Witness ==
    /\ call.op = "setLevel" /\ ~call.wasReady /\ call.wasActive
    /\ call.err = "NotReady"
    /\ initPc \in {"req", "wait"}

\* C3 - active() is true exactly when a session is up and the banner was seen on
\* it.
C3_ActiveIffSessionUp == Active <=> (chan = "open" /\ banner)

\* C4 - a send or a recv made while active() is false raises the not-ready error
\* and writes or reads nothing: the send of a send_wait, the send of an API
\* call, the recv of the reader.
C4_InactiveRefused ==
    /\ (sw.st # "idle" /\ ~sw.wasActive) =>
           (sw.st = "raised" /\ sw.err = "NotReady" /\ ~sw.wrote)
    /\ (call.tried /\ ~call.wasActive) =>
           (call.err = "TransportDown" /\ call.sent = <<>>)
    /\ (rd.st # "none" /\ ~rd.wasActive) =>
           (rd.st = "raised" /\ ~rd.read)

\* The reader's recv and a setter's send were both made on an inactive transport.
C4_Witness ==
    /\ rd.st = "raised" /\ ~rd.wasActive
    /\ call.tried /\ ~call.wasActive /\ call.err = "TransportDown"

\* C5 - send_wait returns the first buffer that arrives within commandTimeout
\* and otherwise fails with the timeout error; it never waits longer.
C5_SendWaitContract ==
    /\ sw.st = "returned" => (sw.wrote /\ sw.got)
    /\ (sw.st = "raised" /\ sw.wrote) => sw.err = "Timeout"
    /\ swClock <= commandTimeout + ClockStep

\* C6 - once a close() has returned the exit flag is set, the supervisor has
\* terminated, the session is closed and no error was raised; once the device's
\* close() has returned the reader has terminated as well. All of it stays so
\* during and after every further close().
C6_CloseIdempotent ==
    /\ nClose >= 1 =>
           /\ exitT /\ supPc = "done"
           /\ chan # "open" /\ session # "open"
           /\ ~closeErr
    /\ dClosed => (exitD /\ ReaderJoined /\ nClose >= 1)

\* Two close() calls have returned, the device's among them, on a session that
\* had been opened.
C6_Witness == nClose = 2 /\ dClosed /\ session = "closed" /\ closePc = "idle"

\* The block a served call names, the channel numbers it has, and the calls
\* that reached a block of a type the operation supports.
CallBlock == blocks[call.block]
CallChannels == {k[2] : k \in DOMAIN CallBlock.channels}
CallChannel(i) == CallBlock.channels[CHOOSE k \in DOMAIN CallBlock.channels : k[2] = i]
CallTargets == IF call.chan = 0 THEN CallChannels ELSE {call.chan}
SentChannels == {call.sent[i].chan : i \in 1..Len(call.sent)}
MuteCommands(cs) == [i \in 1..Len(cs) |-> Cmd(call.block, "mute", cs[i], call.mute, 0)]
Served(op) == call.op = op /\ call.wasReady /\ call.block \in DOMAIN blocks
Accepted(op) ==
    /\ Served(op)
    /\ CallBlock.type \in (IF op = "setMute" THEN MuteTypes ELSE SetLevelTypes)

\* C7 - setMute on an existing block passes the type check exactly when the
\* block's type is LevelControl, MuteControl, DanteInput, DanteOutput,
\* AudioOutput or SourceSelector, and fails as unsupported for every other type.
C7_MuteTypeAccepted ==
    Served("setMute") =>
        (call.err # "UnsupportedForBlockType"
            <=> CallBlock.type \in {"LevelControl", "MuteControl", "DanteInput",
                                    "DanteOutput", "AudioOutput", "SourceSelector"})

\* C8 - an accepted setMute whose sends the transport took: channel 0 writes one
\* set-mute command per channel of the block, in channel order; a channel the
\* block has writes exactly that channel's command; a channel it lacks fails as
\* a nonexistent channel and writes nothing.
C8_MuteTargets ==
    (Accepted("setMute") /\ call.err # "TransportDown") =>
        IF call.chan = 0
        THEN /\ call.err = "none"
             /\ call.sent = MuteCommands([i \in 1..Cardinality(CallChannels) |-> i])
        ELSE IF call.chan \in CallChannels
        THEN call.err = "none" /\ call.sent = MuteCommands(<<call.chan>>)
        ELSE call.err = "NoSuchChannel" /\ call.sent = <<>>

\* C9 - an accepted setLevel whose sends the transport took writes the set-level
\* command of a target channel if and only if the value lies within that
\* channel's minimum and maximum.
C9_LevelInRange ==
    (Accepted("setLevel") /\ call.err # "TransportDown") =>
        \A i \in CallTargets \cap CallChannels :
            i \in SentChannels
                <=> (CallChannel(i).level.minimum <= call.val
                        /\ call.val <= CallChannel(i).level.maximum)

\* What a setter call gets wrong: the block, the operation for the block's type,
\* the channel, the value for one of the channels it addresses.
UnknownBlock == call.block \notin DOMAIN blocks
BadChannel == call.chan # 0 /\ call.chan \notin CallChannels
OutOfRange(i) ==
    call.val < CallChannel(i).level.minimum \/ call.val > CallChannel(i).level.maximum
ExplicitError == call.err \in {"NoSuchBlock", "UnsupportedForBlockType", "NoSuchChannel", "OutOfRange"}

\* C10 (as the specification states it) - a setter call on an unknown block, a
\* nonexistent channel, a block type that does not support the operation or with
\* a value outside a target channel's range ends in an explicit error and writes
\* no command.
C10_MisuseRejected ==
    (call.op \in {"setMute", "setLevel"} /\ call.wasReady) =>
        ((\/ UnknownBlock
          \/ ~UnknownBlock /\ ~Accepted(call.op)
          \/ Accepted(call.op) /\ BadChannel
          \/ Accepted("setLevel") /\ ~BadChannel /\ \E i \in CallTargets : OutOfRange(i))
            => (ExplicitError /\ call.sent = <<>>))

\* C10 (as the code has it) - an unknown block, an unsupported block type and a
\* nonexistent channel end in an explicit error with no command written. A value
\* out of range is no error: no command is written for a channel whose range
\* excludes the value, and a channel-0 setLevel the transport took returns
\* normally with exactly the commands of the channels whose range includes it.
C10_MisuseAmended ==
    (call.op \in {"setMute", "setLevel"} /\ call.wasReady) =>
        /\ UnknownBlock => (call.err = "NoSuchBlock" /\ call.sent = <<>>)
        /\ (~UnknownBlock /\ ~Accepted(call.op))
              => (call.err = "UnsupportedForBlockType" /\ call.sent = <<>>)
        /\ (Accepted(call.op) /\ BadChannel)
              => (call.err = "NoSuchChannel" /\ call.sent = <<>>)
        /\ Accepted("setLevel") => \A i \in SentChannels : i \in CallChannels /\ ~OutOfRange(i)
        /\ (Accepted("setLevel") /\ call.chan = 0 /\ call.err # "TransportDown")
              => /\ call.err = "none"
                 /\ SentChannels = {i \in CallChannels : ~OutOfRange(i)}

\* A channel-0 setLevel whose value only the second channel's range includes:
\* it returned normally and wrote the second channel's command alone.
C10_Witness ==
    /\ Accepted("setLevel") /\ call.chan = 0 /\ call.err = "none"
    /\ OutOfRange(1) /\ ~OutOfRange(2)
    /\ SentChannels = {2}

\* The transport is connected, or has lost its session or not got one yet.
Connected == connected /\ chan = "open"
Lost == ~connected \/ chan # "open"

\* The device takes the connection; the device sends the welcome banner.
DeviceAccepts == Supervisor /\ supPc = "connect" /\ supPc' = "handshake"
DeviceWelcomes == Supervisor /\ supPc = "handshake" /\ connected'

\* C11 - while the exit flag is not set a transport without a session always
\* comes to another connection attempt, however many have failed; and if the
\* device accepts and sends the banner whenever it is asked often enough, the
\* transport becomes connected again.
C11_Reconnects ==
    /\ (Lost /\ ~exitT) ~> (supPc = "connect" \/ Connected \/ exitT)
    /\ (SF_vars(DeviceAccepts) /\ SF_vars(DeviceWelcomes))
          => ((Lost /\ ~exitT) ~> (Connected \/ exitT))

\* A constructed device whose session was lost: the supervisor is at a new
\* attempt, on a fresh client.
C11_Witness ==
    initPc = "done" /\ supPc = "connect" /\ session = "new" /\ ~connected /\ ~exitT

\* C12 - from the moment the reader thread exists no send_wait is in progress
\* and none is issued: the last one of the constructor has returned, and the
\* constructor is past discovery for good.
C12_OneWayHandoff ==
    readerPc # "none" =>
        /\ sw.st = "returned" /\ swClock = 0
        /\ initPc \in {"subscribe", "done", "failed"}

\* The reader has read a buffer from the transport.
C12_Witness == readerPc \in {"more", "recv"} /\ rd.st = "returned" /\ rd.read

\* C13 - the step of a close() that closes the channel and the session is taken
\* only when the supervisor has terminated and, in the device's close(), when
\* the reader has terminated too, both exit flags being set.
C13_TransportClosedLast ==
    [][(closePc \in {"tJoin", "dtJoin"} /\ closePc' = "idle") =>
          /\ exitT /\ supPc = "done"
          /\ closePc = "dtJoin" => (exitD /\ readerPc \in {"done", "dead"})]_vars

\* The first close() of a device has returned: its reader saw the flag and
\* ended, and the session that was open is closed.
C13_Witness ==
    dClosed /\ nClose = 1 /\ readerPc = "done" /\ supPc = "done" /\ session = "closed"

\* C14 - once an exit flag is set the thread that watches it terminates, and a
\* close() that was called returns, whatever the device sends and whatever the
\* state of the connection.
C14_ShutdownTerminates ==
    /\ exitD ~> (readerPc \in {"done", "dead"})
    /\ exitT ~> (supPc = "done")
    /\ (closePc # "idle") ~> (closePc = "idle")

\* C15 - a read all of whose completed lines are subscription frames for names
\* that are not blocks of the model leaves the block map as it was.
C15_UnknownBlockDropped ==
    [][(rd' # rd /\ rd'.lines # <<>>
          /\ \A i \in 1..Len(rd'.lines) :
                /\ rd'.lines[i].kind \in SubscriptionKinds
                /\ rd'.lines[i].block \notin DOMAIN blocks)
        => blocks' = blocks]_vars

\* A frame for a name that is no block was processed, on a model that earlier
\* frames had changed.
C15_Witness ==
    /\ rd.lines # <<>>
    /\ \A i \in 1..Len(rd.lines) :
          rd.lines[i].kind = "mutes" /\ rd.lines[i].block \notin DOMAIN blocks
    /\ blocks \notin {DiscoveredBlocks, CachedBlocks}

\* What the router may not touch: the blocks there are, the fields each has, its
\* type, supported and ganged, the channels there are, the fields each has, its
\* idx and label, and the bounds of its level.
FrozenChannel(ch) ==
    <<DOMAIN ch,
      [f \in DOMAIN ch \ {"muted", "level"} |-> ch[f]],
      IF "level" \in DOMAIN ch
      THEN <<DOMAIN ch.level, ch.level.minimum, ch.level.maximum>> ELSE <<>> >>
FrozenBlock(blk) ==
    <<DOMAIN blk,
      [f \in DOMAIN blk \ {"channels", "usb"} |-> blk[f]],
      IF "channels" \in DOMAIN blk
      THEN [k \in DOMAIN blk.channels |-> FrozenChannel(blk.channels[k])] ELSE <<>>,
      IF "usb" \in DOMAIN blk THEN DOMAIN blk.usb ELSE {} >>
Frozen(blks) == [b \in DOMAIN blks |-> FrozenBlock(blks[b])]

\* C16 - whatever lines a read completes, the block map differs afterwards in
\* nothing but level.current, muted, usb.streaming and usb.connected.
C16_RouterWritesOnlyState == [][Frozen(blocks') = Frozen(blocks)]_vars

\* Frames have set a level, a mute state and a USB flag.
C16_Witness ==
    LET g1 == blocks["G"].channels[ChannelKeys(blocks["G"])[1]]
    IN g1.level.current = 2 /\ g1.muted /\ blocks["U"].usb.streaming

\* C17 - in a constructed device, after any frames, every channel that has a
\* level has its current value within its minimum and maximum.
C17_LevelWithinBounds ==
    \A b \in DOMAIN blocks :
        "channels" \in DOMAIN blocks[b] =>
            \A k \in DOMAIN blocks[b].channels :
                LET ch == blocks[b].channels[k]
                IN "level" \in DOMAIN ch =>
                      (ch.level.minimum <= ch.level.current
                          /\ ch.level.current <= ch.level.maximum)

\* C18 - in a constructed device, after any frames, the keys of every block's
\* channel map are exactly the integers 1..N, N being the number of channels.
C18_ChannelKeysAreIntegers ==
    \A b \in DOMAIN blocks :
        "channels" \in DOMAIN blocks[b] =>
            DOMAIN blocks[b].channels
                = {IntKey(i) : i \in 1..Cardinality(DOMAIN blocks[b].channels)}

\* Discovery is over: the reader is about to be started or was started.
PastDiscovery == initPc = "startReader" \/ readerPc # "none"

\* C19 - with a cache file given, no probe is written and the cached blocks are
\* adopted if and only if the file loads and its hostname, firmware and number
\* of aliases are the device's; otherwise every probe is made, the model is the
\* probed one and a cache of the live device is saved.
C19_CacheFastPath ==
    cacheFile # "none" =>
        IF /\ cacheFile # "unreadable"
           /\ CacheHeader(cacheFile) = LiveHeader
        THEN /\ ~disc.probes /\ disc.saved = <<>>
             /\ PastDiscovery => blocks = CachedBlocks
        ELSE PastDiscovery =>
                /\ disc.probes
                /\ blocks = DiscoveredBlocks
                /\ disc.saved = << [header |-> LiveHeader,
                                    blocks |-> CachedBlocks] >>

\* A device constructed with a cache file that counts one alias more than the
\* device has: it was probed and a new cache was saved.
C19_Witness ==
    /\ cacheFile = "otherAliases" /\ initPc = "done" /\ ready
    /\ disc.probes /\ Len(disc.saved) = 1

\* C20 - a probe whose send_wait ran out of time does not end the constructor.
C20_ProbeFailureTolerated ==
    (disc.probes /\ sw.st = "raised" /\ sw.wrote) => initPc # "failed"

\* C21 - the reader makes a frame of a newline-terminated segment exactly when
\* the segment begins with +OK, -ERR or !: every such segment is dispatched and
\* classified, every other segment is discarded.
C21_PrefixIffFrame ==
    res.op = "segment" =>
        ((res.dispatched /\ res.type # "none") <=>
            \/ StartsWith(Strip(txt), <<"+", "O", "K">>)
            \/ StartsWith(Strip(txt), <<"-", "E", "R", "R">>)
            \/ StartsWith(Strip(txt), <<"!">>))

\* C22 - when the constructor has set up the subscriptions, the commands written
\* are exactly those of the matrix, one each: levels and mutes for a
\* LevelControl, DanteInput, DanteOutput or AudioOutput block, mutes for a
\* MuteControl block, streaming and connected for a UsbInput or UsbOutput block,
\* none for any other block.
C22_SubscriptionMatrix ==
    initPc = "done" =>
        LET matrix(t) ==
                IF t \in {"LevelControl", "DanteInput", "DanteOutput", "AudioOutput"}
                THEN {"levels", "mutes"}
                ELSE IF t = "MuteControl" THEN {"mutes"}
                ELSE IF t \in {"UsbInput", "UsbOutput"} THEN {"streaming", "connected"}
                ELSE {}
            wanted == UNION {{<<b, "subscribe", k>> : k \in matrix(blocks[b].type)} :
                             b \in DOMAIN blocks}
        IN /\ {subs[i] : i \in 1..Len(subs)} = wanted
           /\ Len(subs) = Cardinality(wanted)

\* Subscriptions set up on a device with an AudioOutput, a UsbOutput, a UsbInput
\* and a SourceSelector block.
C22_Witness ==
    /\ initPc = "done" /\ ready
    /\ blocks["G"].type = "AudioOutput"
    /\ blocks["M"].type = "UsbOutput"
    /\ Len(subs) = 6

\* C29 - the value normaliser is idempotent: normalising the text of a
\* normalised token gives the normalised token again.
C29_NormaliseIdempotent == res.op = "token" => res.again = res.first

\* A padded word in mixed case that the normaliser made a bool of.
C29_Witness ==
    /\ res.op = "token"
    /\ res.first = Bool(TRUE)
    /\ txt # Strip(txt)
    /\ \E i \in 1..Len(txt) : txt[i] = "N"

\* The publish token of the line txt, and whether a text has the form
\* S_<tag>_<blockID> with a tag of four characters, and one of the table's.
TokenOf(items) ==
    LET i == CHOOSE j \in 1..Len(items) : items[j].key = "publishToken" IN items[i].texts[1]

HasKey(items, k) == \E i \in 1..Len(items) : items[i].key = k

TokenForm(tok) ==
    \E i \in 3..Len(tok) :
        /\ SubSeq(tok, 1, 2) = <<"S", "_">>
        /\ tok[i] = "_"
        /\ \A j \in 3..(i - 1) : tok[j] # "_"
        /\ \/ (i = 4 /\ tok[3] \in {"LVLA", "MUTA", "USTR", "UCON", "ZZZZ"})
           \/ (i = 7 /\ \A j \in 3..6 : tok[j] \notin {"LVLA", "MUTA", "USTR", "UCON", "ZZZZ"})

TokenTagKnown(tok) == tok[3] \in {"LVLA", "MUTA", "USTR", "UCON"}

\* C23 - a subscription line without a publish token or without a value, or whose
\* token has not the form S_<4-character tag>_<blockID>, or whose tag is not in
\* the table, is rejected as an error and changes nothing in the block map.
C23_MalformedRejected ==
    [][(res = NoRes /\ res'.op = "line"
        /\ (\/ ~HasKey(txt, "publishToken")
            \/ ~HasKey(txt, "value")
            \/ ~TokenForm(TokenOf(txt))
            \/ ~TokenTagKnown(TokenOf(txt))))
       => (res'.err # "none" /\ blocks' = blocks)]_vars

\* The channels of a block in the order of the model, and one single-channel
\* update: the mute state of the i-th channel becomes bool(v).
NthChannel(blk, i) == CHOOSE k \in DOMAIN blk.channels : k[2] = i

MuteChannel(blks, b, i, v) ==
    [blks EXCEPT ![b].channels[NthChannel(blks[b], i)] =
        [f \in DOMAIN @ \cup {"muted"} |->
            IF f = "muted"
            THEN (v = Bool(TRUE) \/ (v[1] = "num" /\ v[2] # 0) \/ (v[1] = "str" /\ v[2] # ""))
            ELSE @[f]]]

RECURSIVE MuteChannels(_, _, _, _)
MuteChannels(blks, b, vs, i) ==
    IF i > Len(vs) THEN blks
    ELSE MuteChannels(MuteChannel(blks, b, i, vs[i]), b, vs, i + 1)

\* The one line a read of the reader completed, if it completed one.
OneLine == rd'.st = "returned" /\ rd' # rd /\ Len(rd'.lines) = 1

IsMutesList(f) ==
    /\ f.kind = "mutes" /\ f.list
    /\ f.block \in DOMAIN blocks
    /\ blocks[f.block].type \in {"LevelControl", "MuteControl", "DanteInput",
                                 "DanteOutput", "AudioOutput"}
    /\ Len(f.vals) = Cardinality(DOMAIN blocks[f.block].channels)

\* C24 - a list-valued mutes line of length N for a non-USB block with N channels
\* leaves the block map that the N single-channel updates
\* channels[i].muted := bool(v_i), made in the order i = 1..N, leave.
C24_MutesListIsSingles ==
    [][(OneLine /\ IsMutesList(rd'.lines[1]))
       => blocks' = MuteChannels(blocks, rd'.lines[1].block, rd'.lines[1].vals, 1)]_vars

\* The two-channel block after the list (false, true) was applied to it when
\* both its channels were muted.
C24_Witness ==
    /\ rd.st = "returned"
    /\ rd.lines = <<Frame("mutes", "G", TRUE, <<Bool(FALSE), Bool(TRUE)>>)>>
    /\ \E k1, k2 \in DOMAIN blocks["G"].channels :
          /\ k1[2] = 1 /\ ~blocks["G"].channels[k1].muted
          /\ k2[2] = 2 /\ blocks["G"].channels[k2].muted
    /\ \E k \in DOMAIN blocks["M"].channels : blocks["M"].channels[k].muted

\* The current levels of a block map: block, channel and level.current of every
\* channel that has a level.
CurrentLevels(blks) ==
    UNION {{<<b, k, blks[b].channels[k].level.current>> :
               k \in {c \in DOMAIN blks[b].channels : "level" \in DOMAIN blks[b].channels[c]}} :
           b \in {x \in DOMAIN blks : "channels" \in DOMAIN blks[x]}}

\* C25 - a list-valued line sets level.current of every channel to its element
\* when its kind is levels, its length is the channel count and the block is
\* not a MuteControl; a list-valued line of kind mutes, streaming or connected
\* changes no level.current.
C25_OnlyLevelsSetLevels ==
    [][OneLine /\ rd'.lines[1].list /\ rd'.lines[1].block \in DOMAIN blocks
       => LET f == rd'.lines[1]
              blk == blocks[f.block]
          IN /\ (/\ f.kind = "levels"
                 /\ blk.type \in SupportedTypes \ {"MuteControl"}
                 /\ Len(f.vals) = Cardinality(DOMAIN blk.channels))
                => \A i \in 1..Len(f.vals) :
                      <<f.block, NthChannel(blk, i), f.vals[i][2]>> \in CurrentLevels(blocks')
             /\ f.kind \in {"mutes", "streaming", "connected"}
                => CurrentLevels(blocks') = CurrentLevels(blocks)]_vars

\* The block map with the USB flag fld of block b set to v.
WithUsbFlag(blks, b, fld, v) ==
    [x \in DOMAIN blks |->
        IF x # b THEN blks[x]
        ELSE [g \in DOMAIN blks[x] |->
                 IF g # "usb" THEN blks[x][g]
                 ELSE [h \in DOMAIN blks[x].usb |-> IF h = fld THEN v ELSE blks[x].usb[h]]]]

\* C26 - a scalar line with a boolean value for a UsbInput or UsbOutput block
\* sets usb.streaming, if its kind is streaming, or usb.connected, if its kind is
\* connected, to that value and changes nothing else; a scalar line for a block
\* that is not USB changes nothing.
C26_UsbScalar ==
    [][(/\ OneLine
        /\ ~rd'.lines[1].list
        /\ rd'.lines[1].vals[1][1] = "bool"
        /\ rd'.lines[1].block \in DOMAIN blocks)
       => LET f == rd'.lines[1] IN
          IF blocks[f.block].type \in {"UsbInput", "UsbOutput"}
             /\ f.kind \in {"streaming", "connected"}
          THEN blocks' = WithUsbFlag(blocks, f.block, f.kind, f.vals[1][2])
          ELSE blocks' = blocks]_vars

\* The USB block streaming and no longer connected, after lines that set the one
\* flag and set and cleared the other.
C26_Witness ==
    /\ rd.st = "returned"
    /\ rd.lines = <<Frame("connected", "U", FALSE, <<Bool(FALSE)>>)>>
    /\ blocks["U"].usb = [streaming |-> TRUE, connected |-> FALSE]

\* The lines received and not yet processed when a read returns, oldest first:
\* the tail held back, then the lines of the read.
Pending == rxBuf \o rd'.got

\* a is b with some of its elements left out.
RECURSIVE IsSubsequence(_, _)
IsSubsequence(a, b) ==
    IF a = <<>> THEN TRUE
    ELSE IF b = <<>> THEN FALSE
    ELSE IF Head(a) = Head(b) THEN IsSubsequence(Tail(a), Tail(b))
    ELSE IsSubsequence(a, Tail(b))

\* C27 - the lines for one block are applied in the order they were received:
\* the lines a read's step applies are pending lines in their receive order, and
\* after the step the block map holds what the newest of them wrote, not the
\* value of an older line for the same block and field.
C27_AppliedInReceiveOrder ==
    [][(rd'.st = "returned" /\ rd' # rd /\ rd'.lines # <<>>)
       => /\ IsSubsequence(rd'.lines, Pending)
          /\ ApplyFrame(blocks', rd'.lines[Len(rd'.lines)]) = blocks']_vars

\* The list (false, true) was applied to the two-channel block after an older
\* line had muted both channels, and a newer line for the same channels is
\* held back.
C27_Witness ==
    /\ rd.st = "returned"
    /\ rd.lines = <<Frame("mutes", "G", TRUE, <<Bool(FALSE), Bool(TRUE)>>)>>
    /\ rxBuf = <<Frame("mutes", "G", TRUE, <<Bool(TRUE), Bool(TRUE)>>)>>
    /\ \E k \in DOMAIN blocks["G"].channels : ~blocks["G"].channels[k].muted
    /\ \E k \in DOMAIN blocks["G"].channels : "level" \in DOMAIN blocks["G"].channels[k]
                                             /\ blocks["G"].channels[k].level.current = 2

\* The places on the wire of the lines a call wrote.
LinesOf(w) == {i \in 1..Len(wire) : wire[i].by = w}

\* C28 - writes to the session are serialised: no two calls are writing at the
\* same time, and the lines of a call that returned earlier are all on the
\* wire before the lines of a call that returned later.
C28_WritesSerialised ==
    /\ \A w1, w2 \in Writers :
          (w1 # w2) => ~(wr[w1].pc = "write" /\ wr[w2].pc = "write")
    /\ \A w1, w2 \in Writers :
          (wr[w1].pc = "returned" /\ wr[w2].pc = "returned" /\ wr[w1].rank < wr[w2].rank)
              => \A i \in LinesOf(w1) : \A j \in LinesOf(w2) : i < j

\* The supervisor reads the welcome text from the session: the one step of the
\* model in which it takes bytes from the channel.
SupervisorReads == banner' /\ ~banner

\* C30 - once discovery has handed the receive stream to the reader, the
\* supervisor never reads bytes from the session, also not while it
\* re-establishes the session after a loss.
C30_SupervisorNeverReads == [][readerPc # "none" => ~SupervisorReads]_vars

\* C30, amended - the supervisor reads from the session only inside __connect,
\* while it waits for the welcome text of a session it has just opened and the
\* connected flag is false; this happens on every reconnection, also after the
\* handoff. Once connected it does not read.
C30_ReadsOnlyHandshaking ==
    [][SupervisorReads =>
         (supPc = "handshake" /\ ~connected /\ connected' /\ chan = "open")]_vars

\* A session re-established after the handoff: the reader's recv had raised on
\* the lost session and the transport is connected again, its banner read.
C30_Witness ==
    /\ readerPc = "dead" /\ rd.st = "raised"
    /\ connected /\ chan = "open" /\ banner /\ supPc = "loop"

\* A list-valued mutes or levels line for a block of the model, with one value
\* per channel of the block.
WellFormedList(f) ==
    /\ f.list /\ f.kind \in {"mutes", "levels"}
    /\ f.block \in DOMAIN blocks
    /\ "channels" \in DOMAIN blocks[f.block]
    /\ Len(f.vals) = Cardinality(DOMAIN blocks[f.block].channels)

\* C31 - every well-formed subscription line that a read of the reader delivers
\* is eventually applied to the model as a line of its own, whether it is the
\* only line of its read, the first of several or the last.
C31_DeliveredApplied ==
    \A f \in ListFrames :
        (rd.st = "returned" /\ WellFormedList(f) /\ rd.got[Len(rd.got)] = f)
            ~> (\E i \in 1..Len(rd.lines) : rd.lines[i] = f)

\* C32 - once the constructor has returned, a session loss and a reconnection
\* start no discovery request and write no subscribe command: the session that
\* replaces the lost one gets no subscriptions, the device sends no subscription
\* line on it, the block map changes on it by nothing but a line that was held
\* back from the lost session, and ready stays true.
C32_NoResubscribe ==
    [][initPc = "done" =>
         /\ ready /\ ready'
         /\ subs' = subs /\ (subSession' => subSession)
         /\ reqIdx' = 0 /\ sw' = sw /\ disc' = disc /\ initPc' = "done"
         /\ (~subSession /\ rd' # rd)
               => /\ \A i \in 1..Len(rd'.got) : rd'.got[i].kind \notin SubscriptionKinds
                  /\ blocks' # blocks => rxBuf # <<>>]_vars

\* The session was lost and replaced after the constructor returned: the reader
\* has read an answer on the new session, which has no subscriptions, and the
\* device is still ready.
C32_Witness ==
    /\ initPc = "done" /\ ready /\ subs # <<>>
    /\ ~subSession /\ connected /\ chan = "open" /\ banner
    /\ rd.st = "returned" /\ rd.got # <<>>
    /\ \A i \in 1..Len(rd.got) : rd.got[i] = Answer

\* The request a send_wait of the constructor writes, and the step that writes it.
RequestWritten == sw' # sw /\ sw'.st = "waiting" /\ sw'.wrote

\* C33 - discovery sends its requests in strict sequence: hostname, version,
\* aliases, the two session settings, then the cache file or the probes; a
\* request is written only when the one before it has returned a response, the
\* request after the n-th is the (n+1)-th, and no subscribe command is written
\* before the last request of discovery has returned.
C33_StrictSequence ==
    /\ [][/\ RequestWritten =>
               /\ reqIdx \in 1..Len(Requests)
               /\ reqIdx = 1 \/ (sw.st = "returned" /\ sw.got)
          /\ (reqIdx' # reqIdx /\ reqIdx' # 0) =>
               /\ reqIdx' = reqIdx + 1
               /\ reqIdx = 0 \/ (sw'.st = "returned" /\ sw'.got)
          /\ (blocks' # blocks /\ blocks = <<>>) =>
               /\ sw'.st = "returned" /\ sw'.got
               /\ reqIdx = (IF disc.probes THEN Len(Requests) ELSE 5)
          /\ disc'.probes => (disc.probes \/ reqIdx = 6)
          /\ subs' # subs =>
               /\ initPc = "subscribe" /\ reqIdx = 0
               /\ sw.st = "returned" /\ sw.got /\ sw' = sw
               /\ blocks # <<>>]_vars
    /\ [](/\ SubSeq(Requests, 1, 5) =
               << <<"DEVICE", "get", "hostname", 0>>, <<"DEVICE", "get", "version", 0>>,
                  <<"SESSION", "get", "aliases", 0>>, <<"SESSION", "set", "verbose", 0>>,
                  <<"SESSION", "set", "detailedResponse", 0>> >>
          /\ \A i \in 6..Len(Requests) : Requests[i][1] \notin {"DEVICE", "SESSION"})

\* A constructor that was given a cache file of another host has sent every
\* request, probed the device and written the subscribe commands.
C33_Witness ==
    /\ cacheFile = "otherHost" /\ initPc = "done"
    /\ disc.probes /\ blocks = DiscoveredBlocks
    /\ subs = SubscribeCommands(blocks) /\ subs # <<>>

\* The constructor has stopped before any probe: nothing was probed, the reader
\* was not started and ready is false.
Aborted == initPc = "failed" /\ ~disc.probes /\ readerPc = "none" /\ ~ready

\* C34 - when the hostname, version or aliases request runs out of time or its
\* answer cannot be parsed, the constructor stops: no block is probed, the
\* reader is not started and ready stays false.
C34_HeaderFailureAborts ==
    /\ (info.hostname = "None" \/ info.firmware = "None" \/ info.nAliases = -1) => Aborted
    /\ (sw.st = "raised" /\ sw.wrote /\ info.nAliases = 0) => Aborted

\* C35 - a list-valued line whose number of values is not the number of channels
\* of the block it names changes nothing in the block map.
C35_LengthMismatchDropped ==
    [][(/\ OneLine
        /\ rd'.lines[1].list
        /\ rd'.lines[1].block \in DOMAIN blocks
        /\ "channels" \in DOMAIN blocks[rd'.lines[1].block]
        /\ Len(rd'.lines[1].vals)
              # Cardinality(DOMAIN blocks[rd'.lines[1].block].channels))
       => blocks' = blocks]_vars

\* A mutes list of one value for the block of two channels was processed, after
\* a list of two values had muted both channels: they are still muted, and the
\* levels are as discovery left them.
C35_Witness ==
    /\ rd.st = "returned"
    /\ rd.lines = <<Frame("mutes", "G", TRUE, <<Bool(TRUE)>>)>>
    /\ \A k \in DOMAIN blocks["G"].channels :
          blocks["G"].channels[k].muted /\ blocks["G"].channels[k].level.current = -100
    /\ \A k \in DOMAIN blocks["M"].channels : ~blocks["M"].channels[k].muted

\* C36 - the publish token the encoder makes for a kind and a block ID is parsed
\* back from a pushed line to that kind and that block ID, and the tokens of two
\* different pairs of kind and block ID never parse to the same pair.
C36_TokenRoundTrip ==
    res.op = "decoded" =>
        /\ res.parsed.ok
        /\ \A k \in DOMAIN SubscriptionTypeIDs, id \in BlockIdTexts :
              /\ txt = PushLine(k, id) => (res.parsed.type = k /\ res.parsed.dspBlock = id)
              /\ (/\ ParseSubscription(PushLine(k, id)).type = res.parsed.type
                  /\ ParseSubscription(PushLine(k, id)).dspBlock = res.parsed.dspBlock)
                 => txt = PushLine(k, id)

\* The block map as the probing that wrote the cache file had built it: the keys
\* of the channel maps are the integers they were before they were saved.
Probed(blks) ==
    [b \in DOMAIN blks |->
        IF "channels" \notin DOMAIN blks[b] THEN blks[b]
        ELSE [f \in DOMAIN blks[b] |->
                 IF f # "channels" THEN blks[b][f]
                 ELSE [k \in {IntKey(j[2]) : j \in DOMAIN blks[b].channels} |->
                          blks[b].channels[CHOOSE j \in DOMAIN blks[b].channels : j[2] = k[2]]]]]

\* C37 - a model loaded from the cache file that a discovery of the same device
\* wrote behaves as the probed model it was saved from: setMute and setLevel on
\* a channel 1..N of a block are accepted and write the command they write on
\* the probed model, and a line the reader applies changes the channels it
\* changes in the probed model.
C37_CacheEquivalent ==
    /\ [](/\ call.op \in {"setMute", "setLevel"}
          /\ call.wasReady /\ call.err # "TransportDown"
          /\ call.block \in DOMAIN blocks
          /\ blocks[call.block].type \in (IF call.op = "setMute" THEN MuteTypes ELSE SetLevelTypes)
          /\ call.chan \in 1..Cardinality(DOMAIN blocks[call.block].channels)
          => LET ch == Probed(blocks)[call.block].channels[IntKey(call.chan)] IN
             /\ call.err = "none"
             /\ call.sent =
                  IF call.op = "setMute"
                  THEN <<Cmd(call.block, "mute", call.chan, call.mute, 0)>>
                  ELSE IF ch.level.minimum <= call.val /\ call.val <= ch.level.maximum
                  THEN <<Cmd(call.block, "level", call.chan, FALSE, call.val)>>
                  ELSE <<>>)
    /\ [][OneLine => Probed(blocks') = ApplyFrame(Probed(blocks), rd'.lines[1])]_vars

\* A list-valued line that the router begins to apply and fails on: a list of as
\* many values as the block has channels, stored as levels, with a value that
\* is no number or a channel that has no level.
FailsPartWay(f) ==
    /\ f.list /\ f.kind \in SubscriptionKinds \ {"mutes"}
    /\ f.block \in DOMAIN blocks
    /\ blocks[f.block].type \in SupportedTypes \ {"MuteControl"}
    /\ Len(f.vals) = Cardinality(DOMAIN blocks[f.block].channels)
    /\ \E i \in 1..Len(f.vals) :
          \/ f.vals[i][1] = "str"
          \/ "level" \notin DOMAIN blocks[f.block].channels[NthChannel(blocks[f.block], i)]

\* C38 - a line is applied all or nothing: when applying it fails part-way, no
\* channel of the block has been changed by it.
C38_AllOrNothing ==
    [][(OneLine /\ FailsPartWay(rd'.lines[1])) => blocks' = blocks]_vars

\* C39 - the reader thread runs until the exit flag is set: as long as the flag
\* is not set a reader that was started is in its loop, whatever happened to
\* the session, also between the test that a buffer is ready and the read.
C39_ReaderSurvives ==
    (readerPc # "none" /\ ~exitD) => readerPc \in {"run", "more", "recv"}

\* C40: every value discovery stores is parsed from the whole response to the
\* request that asked for it: not from what an earlier response left in the
\* channel and not from a response cut short where a read ended.
C40_AnswerOfItsRequest ==
    (res # NoRes /\ ~Ignored(res.req)) => res.from = Piece(res.req, "whole")

====
